---------------------------- MODULE Spec2Model ----------------------------
(***************************************************************************)
(* Model of the resilient execution engine of tti-middleware:              *)
(* BaseTTIProvider.resolveRetryConfig, calculateRetryDelay, withTimeout,   *)
(* isTimeoutError, isRetryableError and executeWithRetry                   *)
(* (src/src/middleware/services/tti/providers/base-tti-provider.ts).       *)
(*                                                                         *)
(* Error messages are sequences of one-character strings, so that          *)
(* toLowerCase(), includes() and startsWith() are computed, not assumed.   *)
(* Numbers that may be fractional (backoffMultiplier, Math.random()) are   *)
(* exact rationals [num, den].                                             *)
(***************************************************************************)
EXTENDS Integers, Sequences, FiniteSets, TLC

(***************************************************************************)
(* Bounds of the model.                                                    *)
(***************************************************************************)
\* largest maxRetries a request of the executor specification supplies
MaxRetriesIn == 2
\* largest timeoutRetries a request of the executor specification supplies
MaxTimeoutRetriesIn == 2
\* largest retry number k for which calculateRetryDelay is evaluated
MaxAttemptArg == 4

(***************************************************************************)
(* Strings.                                                                *)
(***************************************************************************)
\* String.prototype.toLowerCase on one character
LowerChar(c) ==
  CASE c = "A" -> "a" [] c = "B" -> "b" [] c = "C" -> "c" [] c = "D" -> "d"
    [] c = "E" -> "e" [] c = "F" -> "f" [] c = "G" -> "g" [] c = "H" -> "h"
    [] c = "I" -> "i" [] c = "J" -> "j" [] c = "K" -> "k" [] c = "L" -> "l"
    [] c = "M" -> "m" [] c = "N" -> "n" [] c = "O" -> "o" [] c = "P" -> "p"
    [] c = "Q" -> "q" [] c = "R" -> "r" [] c = "S" -> "s" [] c = "T" -> "t"
    [] c = "U" -> "u" [] c = "V" -> "v" [] c = "W" -> "w" [] c = "X" -> "x"
    [] c = "Y" -> "y" [] c = "Z" -> "z" [] OTHER -> c

\* String.prototype.toLowerCase
toLowerCase(s) == [i \in 1..Len(s) |-> LowerChar(s[i])]

\* String.prototype.includes: t occurs in s as a contiguous substring
includes(s, t) ==
  \E i \in 0..(Len(s) - Len(t)) : SubSeq(s, i + 1, i + Len(t)) = t

\* String.prototype.startsWith
startsWith(s, t) == Len(s) >= Len(t) /\ SubSeq(s, 1, Len(t)) = t

\* one decimal digit as a character
DigitChar(d) == <<"0","1","2","3","4","5","6","7","8","9">>[d + 1]

\* template-literal rendering of a positive integer (${timeoutMs})
RECURSIVE NumberToString(_)
NumberToString(n) ==
  IF n < 10 THEN <<DigitChar(n)>>
  ELSE NumberToString(n \div 10) \o <<DigitChar(n % 10)>>

(***************************************************************************)
(* isRetryableError: the marker tables.                                    *)
(***************************************************************************)
\* markers of non-retryable client errors, checked first
NonRetryableMarkers == {
  <<"4","0","1">>, <<"4","0","3">>, <<"4","0","0">>,
  <<"a","u","t","h","e","n","t","i","c","a","t","i","o","n">>,
  <<"u","n","a","u","t","h","o","r","i","z","e","d">>,
  <<"f","o","r","b","i","d","d","e","n">> }

\* retryable HTTP status codes
RetryableStatusMarkers == {
  <<"4","2","9">>, <<"4","0","8">>, <<"5","0","0">>, <<"5","0","2">>,
  <<"5","0","3">>, <<"5","0","4">> }

\* retryable by error description (rate limit / quota)
RetryableDescriptionMarkers == {
  <<"r","a","t","e"," ","l","i","m","i","t">>,
  <<"q","u","o","t","a"," ","e","x","c","e","e","d","e","d">>,
  <<"t","o","o"," ","m","a","n","y"," ","r","e","q","u","e","s","t","s">>,
  <<"r","e","s","o","u","r","c","e"," ","e","x","h","a","u","s","t","e","d">> }

\* network / timeout markers
NetworkMarkers == {
  <<"t","i","m","e","o","u","t">>,
  <<"e","t","i","m","e","d","o","u","t">>,
  <<"e","s","o","c","k","e","t","t","i","m","e","d","o","u","t">>,
  <<"e","c","o","n","n","r","e","s","e","t">>,
  <<"e","c","o","n","n","r","e","f","u","s","e","d">>,
  <<"e","n","o","t","f","o","u","n","d">>,
  <<"e","c","o","n","n","a","b","o","r","t","e","d">>,
  <<"e","p","i","p","e">>,
  <<"e","h","o","s","t","u","n","r","e","a","c","h">>,
  <<"e","n","e","t","u","n","r","e","a","c","h">>,
  <<"s","o","c","k","e","t"," ","h","a","n","g"," ","u","p">> }

\* mutant: the retryable markers are tested before the client-error markers
isRetryableErrorRetryableFirst(message) ==
  LET m == toLowerCase(message) IN
  \E k \in RetryableStatusMarkers \cup RetryableDescriptionMarkers
             \cup NetworkMarkers : includes(m, k)

\* mutant: every error is treated as transient
isRetryableErrorAlways(message) == Len(message) >= 0

\* isRetryableError(error), on error.message
isRetryableError(message) ==
  LET m == toLowerCase(message) IN
  IF \E k \in NonRetryableMarkers : includes(m, k) THEN FALSE
  ELSE IF \E k \in RetryableStatusMarkers : includes(m, k) THEN TRUE
  ELSE IF \E k \in RetryableDescriptionMarkers : includes(m, k) THEN TRUE
  ELSE IF \E k \in NetworkMarkers : includes(m, k) THEN TRUE
  ELSE FALSE

\* isTimeoutError(error), on error.message
isTimeoutError(message) ==
  startsWith(toLowerCase(message), <<"t","i","m","e","o","u","t",":">>)

\* the message of the error withTimeout rejects with:
\* `timeout: ${operationName} did not complete within ${timeoutMs}ms`
TimeoutMessage(operationName, timeoutMs) ==
  <<"t","i","m","e","o","u","t",":"," ">> \o operationName
    \o <<" ","d","i","d"," ","n","o","t"," ","c","o","m","p","l","e","t","e",
         " ","w","i","t","h","i","n"," ">>
    \o NumberToString(timeoutMs) \o <<"m","s">>

(***************************************************************************)
(* Optional values: <<>> is undefined, <<v>> is the value v.               *)
(***************************************************************************)
Undefined == <<>>

\* a ?? b
Nullish(a, b) == IF a = Undefined THEN b ELSE a

\* exact rational n/d, d > 0
Rat(n, d) == [num |-> n, den |-> d]

(***************************************************************************)
(* Retry configuration.                                                    *)
(***************************************************************************)
\* DEFAULT_RETRY_OPTIONS of the revision that has backoff, jitter and timeouts
DEFAULT_RETRY_OPTIONS ==
  [ maxRetries        |-> <<3>>,
    delayMs           |-> <<1000>>,
    backoffMultiplier |-> <<Rat(2, 1)>>,
    maxDelayMs        |-> <<30000>>,
    jitter            |-> <<TRUE>>,
    timeoutMs         |-> <<45000>>,
    timeoutRetries    |-> <<2>> ]

\* request.retry === false | true | undefined, as values of the same shape as
\* a RetryOptions object
RetryLiteral(kind) ==
  [ kind |-> kind, maxRetries |-> Undefined, delayMs |-> Undefined,
    backoffMultiplier |-> Undefined, maxDelayMs |-> Undefined,
    jitter |-> Undefined, timeoutMs |-> Undefined,
    timeoutRetries |-> Undefined, incrementalBackoff |-> Undefined ]

\* mutant: the timeout fields are copied from the override without defaults
resolveRetryConfigNoTimeoutDefaults(retryOption) ==
  IF retryOption.kind = "false" THEN Undefined
  ELSE IF retryOption.kind \in {"undefined", "true"}
    THEN <<DEFAULT_RETRY_OPTIONS>>
  ELSE
    LET backoffMultiplier ==
          IF retryOption.incrementalBackoff # Undefined
             /\ retryOption.backoffMultiplier = Undefined
          THEN <<Rat(1, 1)>>
          ELSE Nullish(retryOption.backoffMultiplier,
                       DEFAULT_RETRY_OPTIONS.backoffMultiplier)
    IN <<[ maxRetries |-> Nullish(retryOption.maxRetries,
                                  DEFAULT_RETRY_OPTIONS.maxRetries),
           delayMs |-> Nullish(retryOption.delayMs, DEFAULT_RETRY_OPTIONS.delayMs),
           backoffMultiplier |-> backoffMultiplier,
           maxDelayMs |-> Nullish(retryOption.maxDelayMs,
                                  DEFAULT_RETRY_OPTIONS.maxDelayMs),
           jitter |-> Nullish(retryOption.jitter, DEFAULT_RETRY_OPTIONS.jitter),
           timeoutMs |-> retryOption.timeoutMs,
           timeoutRetries |-> retryOption.timeoutRetries ]>>

\* mutant: retry === false is resolved like retry === true
resolveRetryConfigFalseAsDefault(retryOption) ==
  IF retryOption.kind \in {"false", "undefined", "true"}
    THEN <<DEFAULT_RETRY_OPTIONS>>
  ELSE <<[ maxRetries |-> Nullish(retryOption.maxRetries,
                                  DEFAULT_RETRY_OPTIONS.maxRetries),
           delayMs |-> Nullish(retryOption.delayMs, DEFAULT_RETRY_OPTIONS.delayMs),
           backoffMultiplier |->
             IF retryOption.incrementalBackoff # Undefined
                /\ retryOption.backoffMultiplier = Undefined
             THEN <<Rat(1, 1)>>
             ELSE Nullish(retryOption.backoffMultiplier,
                          DEFAULT_RETRY_OPTIONS.backoffMultiplier),
           maxDelayMs |-> Nullish(retryOption.maxDelayMs,
                                  DEFAULT_RETRY_OPTIONS.maxDelayMs),
           jitter |-> Nullish(retryOption.jitter, DEFAULT_RETRY_OPTIONS.jitter),
           timeoutMs |-> Nullish(retryOption.timeoutMs,
                                 DEFAULT_RETRY_OPTIONS.timeoutMs),
           timeoutRetries |-> Nullish(retryOption.timeoutRetries,
                                      DEFAULT_RETRY_OPTIONS.timeoutRetries) ]>>

\* mutant: the legacy flag incrementalBackoff is ignored
resolveRetryConfigIgnoresLegacy(retryOption) ==
  IF retryOption.kind = "false" THEN Undefined
  ELSE IF retryOption.kind \in {"undefined", "true"}
    THEN <<DEFAULT_RETRY_OPTIONS>>
  ELSE
    <<[ maxRetries |-> Nullish(retryOption.maxRetries,
                               DEFAULT_RETRY_OPTIONS.maxRetries),
        delayMs |-> Nullish(retryOption.delayMs, DEFAULT_RETRY_OPTIONS.delayMs),
        backoffMultiplier |-> Nullish(retryOption.backoffMultiplier,
                                      DEFAULT_RETRY_OPTIONS.backoffMultiplier),
        maxDelayMs |-> Nullish(retryOption.maxDelayMs,
                               DEFAULT_RETRY_OPTIONS.maxDelayMs),
        jitter |-> Nullish(retryOption.jitter, DEFAULT_RETRY_OPTIONS.jitter),
        timeoutMs |-> Nullish(retryOption.timeoutMs,
                              DEFAULT_RETRY_OPTIONS.timeoutMs),
        timeoutRetries |-> Nullish(retryOption.timeoutRetries,
                                   DEFAULT_RETRY_OPTIONS.timeoutRetries) ]>>

\* resolveRetryConfig(request), on request.retry; Undefined is null
resolveRetryConfig(retryOption) ==
  IF retryOption.kind = "false" THEN Undefined
  ELSE IF retryOption.kind \in {"undefined", "true"}
    THEN <<DEFAULT_RETRY_OPTIONS>>
  ELSE
    LET base == Nullish(retryOption.backoffMultiplier,
                        DEFAULT_RETRY_OPTIONS.backoffMultiplier)
        \* incrementalBackoff ? 1.0 : 1.0
        backoffMultiplier ==
          IF retryOption.incrementalBackoff # Undefined
             /\ retryOption.backoffMultiplier = Undefined
          THEN (IF retryOption.incrementalBackoff[1]
                  THEN <<Rat(1, 1)>> ELSE <<Rat(1, 1)>>)
          ELSE base
    IN <<[ maxRetries |-> Nullish(retryOption.maxRetries,
                                  DEFAULT_RETRY_OPTIONS.maxRetries),
           delayMs |-> Nullish(retryOption.delayMs, DEFAULT_RETRY_OPTIONS.delayMs),
           backoffMultiplier |-> backoffMultiplier,
           maxDelayMs |-> Nullish(retryOption.maxDelayMs,
                                  DEFAULT_RETRY_OPTIONS.maxDelayMs),
           jitter |-> Nullish(retryOption.jitter, DEFAULT_RETRY_OPTIONS.jitter),
           timeoutMs |-> Nullish(retryOption.timeoutMs,
                                 DEFAULT_RETRY_OPTIONS.timeoutMs),
           timeoutRetries |-> Nullish(retryOption.timeoutRetries,
                                      DEFAULT_RETRY_OPTIONS.timeoutRetries) ]>>

(***************************************************************************)
(* Backoff delay.                                                          *)
(***************************************************************************)
\* b^e for e >= 0
RECURSIVE Pow(_, _)
Pow(b, e) == IF e <= 0 THEN 1 ELSE b * Pow(b, e - 1)

\* Math.round(n/d) for d > 0: the nearest integer, halves towards +Infinity
MathRound(n, d) == (2 * n + d) \div (2 * d)

\* the denominator of the values Math.random() is drawn from
RandomDen == 10000

\* the numerators of the values Math.random() is drawn from: 0 and 0.9999
RandomNums == {0, 9999}

\* mutant: the cap maxDelayMs is not applied
calculateRetryDelayNoCap(attempt, config, rnd) ==
  LET mult == config.backoffMultiplier[1]
      expNum == config.delayMs[1] * Pow(mult.num, attempt - 1)
      expDen == Pow(mult.den, attempt - 1)
  IN IF config.jitter[1]
       THEN MathRound(rnd * expNum, RandomDen * expDen)
       ELSE MathRound(expNum, expDen)

\* mutant: the exponent is attempt instead of attempt - 1
calculateRetryDelayOffByOne(attempt, config, rnd) ==
  LET mult == config.backoffMultiplier[1]
      expNum == config.delayMs[1] * Pow(mult.num, attempt)
      expDen == Pow(mult.den, attempt)
      capped == expNum > config.maxDelayMs[1] * expDen
      capNum == IF capped THEN config.maxDelayMs[1] ELSE expNum
      capDen == IF capped THEN 1 ELSE expDen
  IN IF config.jitter[1]
       THEN MathRound(rnd * capNum, RandomDen * capDen)
       ELSE MathRound(capNum, capDen)

\* mutant: the jitter is added to the capped delay instead of scaling it
calculateRetryDelayAdditiveJitter(attempt, config, rnd) ==
  LET mult == config.backoffMultiplier[1]
      expNum == config.delayMs[1] * Pow(mult.num, attempt - 1)
      expDen == Pow(mult.den, attempt - 1)
      capped == expNum > config.maxDelayMs[1] * expDen
      capNum == IF capped THEN config.maxDelayMs[1] ELSE expNum
      capDen == IF capped THEN 1 ELSE expDen
  IN IF config.jitter[1]
       THEN MathRound((RandomDen + rnd) * capNum, RandomDen * capDen)
       ELSE MathRound(capNum, capDen)

\* calculateRetryDelay(attempt, config); rnd / RandomDen is the value that
\* Math.random() returns when jitter is on
calculateRetryDelay(attempt, config, rnd) ==
  LET mult == config.backoffMultiplier[1]
      \* exponentialDelay = delayMs * Math.pow(backoffMultiplier, attempt - 1)
      expNum == config.delayMs[1] * Pow(mult.num, attempt - 1)
      expDen == Pow(mult.den, attempt - 1)
      \* cappedDelay = Math.min(exponentialDelay, maxDelayMs)
      capped == expNum > config.maxDelayMs[1] * expDen
      capNum == IF capped THEN config.maxDelayMs[1] ELSE expNum
      capDen == IF capped THEN 1 ELSE expDen
  IN IF config.jitter[1]
       THEN MathRound(rnd * capNum, RandomDen * capDen)
       ELSE MathRound(capNum, capDen)

(***************************************************************************)
(* Errors and operation outcomes.                                          *)
(***************************************************************************)
\* operationName of the call (google-cloud-provider: 'Imagen API call')
OperationName ==
  <<"I","m","a","g","e","n"," ","A","P","I"," ","c","a","l","l">>

\* the messages of the errors the wrapped operation throws in this model
OpMessageKeys == {"429", "503", "401", "invalid", "optimeout"}

\* error.message of an operation error
OpMessageText(key) ==
  CASE key = "429" ->
         <<"4","2","9"," ","R","a","t","e"," ","l","i","m","i","t">>
    [] key = "503" ->
         <<"5","0","3"," ","S","e","r","v","i","c","e"," ","U","n","a","v",
           "a","i","l","a","b","l","e">>
    [] key = "401" ->
         <<"s","t","a","t","u","s"," ","4","0","1"," ","U","n","a","u","t",
           "h","o","r","i","z","e","d">>
    [] key = "invalid" ->
         <<"I","n","v","a","l","i","d"," ","p","r","o","m","p","t">>
    [] key = "optimeout" ->
         <<"T","i","m","e","o","u","t",":"," ","u","p","s","t","r","e","a",
           "m"," ","c","l","o","s","e","d">>

\* operation names: those the providers pass and one that contains '401'
GuardOperationNames ==
  { OperationName,
    <<"G","e","m","i","n","i"," ","A","P","I"," ","c","a","l","l">>,
    <<"E","d","e","n","A","I"," ","A","P","I"," ","c","a","l","l">>,
    <<"I","O","N","O","S"," ","A","P","I"," ","c","a","l","l">>,
    <<"P","O","S","T"," ","/","v","1","/","4","0","1","-","p","r","o","b","e">> }

\* lastError = null
NoError == [src |-> "none", msg |-> "null", bound |-> 0, at |-> 0]

\* the Error thrown by the operation of attempt `at`
OpError(key, at) == [src |-> "op", msg |-> key, bound |-> 0, at |-> at]

\* the Error withTimeout creates when its timer fires during attempt `at`
GuardError(bound, at) ==
  [src |-> "guard", msg |-> "guard", bound |-> bound, at |-> at]

\* error.message
ErrorMessage(error) ==
  IF error.src = "guard" THEN TimeoutMessage(OperationName, error.bound)
  ELSE OpMessageText(error.msg)

\* the bounds withTimeout is armed with in this model (retry.timeoutMs values)
TimeoutBounds == {50, 400, 40000, 45000}

\* the errors of the model without the attempt they belong to
ErrorShapes ==
  { [src |-> "op", msg |-> key, bound |-> 0, at |-> 0] : key \in OpMessageKeys }
  \cup
  { [src |-> "guard", msg |-> "guard", bound |-> b, at |-> 0] : b \in TimeoutBounds }

\* isTimeoutError, evaluated once per error of the model
IsTimeoutTable == [e \in ErrorShapes |-> isTimeoutError(ErrorMessage(e))]

\* isRetryableError, evaluated once per error of the model
IsRetryableTable == [e \in ErrorShapes |-> isRetryableError(ErrorMessage(e))]

\* this.isTimeoutError(error)
ErrorIsTimeout(error) == IsTimeoutTable[[error EXCEPT !.at = 0]]

\* this.isRetryableError(error)
ErrorIsRetryable(error) == IsRetryableTable[[error EXCEPT !.at = 0]]

(***************************************************************************)
(* State.                                                                  *)
(***************************************************************************)
VARIABLES
  retry,              \* request.retry
  retryConfig,        \* result of resolveRetryConfig (Undefined is null)
  pc,                 \* position of the executor / of the pure-function runs
  attempt,            \* loop variable of executeWithRetry
  generalRetryCount,
  timeoutRetryCount,
  lastError,
  invocations,        \* number of times operation() was called
  sleeps,             \* arguments of the sleep() calls, in order
  outcomes,           \* what the caller of executeWithRetry received
  inflight,           \* attempts whose operation() promise is unsettled
  history,            \* per attempt: how the awaited promise settled
  delays,             \* results of calculateRetryDelay(1..), in order
  timer,              \* withTimeout: the setTimeout handle
  operation,          \* withTimeout: the promise operation() returned
  guard,              \* withTimeout: the promise withTimeout returned
  unhandled,          \* number of promise rejections nobody handles
  backend,            \* the error the backend call failed with
  context,            \* the context argument of handleError (or Undefined)
  wrapped,            \* handleError(backend, context) (Undefined before)
  classes,            \* verdicts of the catch block on backend and wrapped
  failures,           \* the operation rejects (429) on its first `failures` calls
  legacyConfig,       \* legacy executor: result of its resolveRetryConfig
  legacyPc,           \* legacy executor: position
  legacyAttempt,      \* legacy executor: loop variable
  legacyLastError,    \* legacy executor: lastError
  legacyInvocations,  \* legacy executor: number of operation() calls
  legacySleeps,       \* legacy executor: arguments of its sleep() calls
  legacyOutcomes,     \* legacy executor: what its caller received
  rotation,           \* regionRotation of the provider config (Undefined: none)
  hooked,             \* whether options.onRetry is supplied
  cursor,             \* RegionCursor: index into the candidate list
  regionLog,          \* the region of every invocation, in order
  hookCalls,          \* the onRetry(error, attemptNumber) calls, in order
  bonus,              \* number of bonus fallback attempts made
  delivered,          \* what the caller of the rotating provider received
  configRegion,       \* GoogleCloudTTIProvider: this.config.region
  lastUsedRegion,     \* GoogleCloudTTIProvider: this.lastUsedRegion (Undefined is null)
  genaiClient,        \* GoogleCloudTTIProvider: this.genaiClient (Undefined is null)
  aiplatformClient,   \* GoogleCloudTTIProvider: this.aiplatformClient (Undefined is null)
  constructed,        \* the SDK clients constructed so far, in order
  requests,           \* the generate() calls on the one provider instance
  dryProvider,        \* the provider class generate() is called on
  dryRequest,         \* the request passed to generate()
  dryPc,              \* position of that generate() call
  backendCalls,       \* number of times the provider's backend was invoked
  dryResponse,        \* what the caller of generate() received
  providers,          \* TTIService: this.providers, in insertion order
  defaultProvider,    \* TTIService: this.defaultProvider
  registered,         \* TTIService: number of registerProvider calls so far
  delegations,        \* TTIService: how the latest generate() call was resolved
  runPolicy,          \* concurrent invocations: the resolved policy they share
  runs                \* concurrent invocations: the locals of each invocation

\* the state of one withTimeout call
guardVars == <<timer, operation, guard, unhandled>>

\* the state of one classification of a backend error and of its wrapper
classifyVars == <<backend, context, wrapped, classes>>

\* the state of the legacy executor and the script of the operation
legacyVars == <<failures, legacyConfig, legacyPc, legacyAttempt,
                legacyLastError, legacyInvocations, legacySleeps,
                legacyOutcomes>>

\* the state of the onRetry hook and of the RegionRotator
rotationVars == <<rotation, hooked, cursor, regionLog, hookCalls, bonus,
                  delivered>>

\* the state of one GoogleCloudTTIProvider instance and of the calls on it
providerVars == <<configRegion, lastUsedRegion, genaiClient, aiplatformClient,
                  constructed, requests>>

\* the state of one generate() call with its request
dryVars == <<dryProvider, dryRequest, dryPc, backendCalls, dryResponse>>

\* the state of the provider entry points
entryVars == <<providerVars, dryVars>>

\* the state of the TTIService registry
serviceVars == <<providers, defaultProvider, registered, delegations>>

\* the state of the invocations that run side by side
runVars == <<runPolicy, runs>>

\* the state of the service and of the side-by-side invocations
outerVars == <<serviceVars, runVars>>

\* the state of the layers around the executor
layerVars == <<rotationVars, entryVars, outerVars>>

vars == <<retry, retryConfig, pc, attempt, generalRetryCount,
          timeoutRetryCount, lastError, invocations, sleeps, outcomes,
          inflight, history, delays, guardVars, classifyVars, legacyVars,
          layerVars>>

\* a promise: pending, fulfilled with a value or rejected with an error
PendingPromise == [state |-> "pending", value |-> 0, err |-> NoError]

FulfilledPromise(v) == [state |-> "fulfilled", value |-> v, err |-> NoError]

RejectedPromise(e) == [state |-> "rejected", value |-> 0, err |-> e]

\* no withTimeout call has been made
NoGuard ==
  /\ timer = "unset"
  /\ operation = [state |-> "uncalled", value |-> 0, err |-> NoError]
  /\ guard = [state |-> "uncalled", value |-> 0, err |-> NoError]
  /\ unhandled = 0

\* the legacy executor is not running
NoLegacy ==
  /\ failures = 0
  /\ legacyConfig = <<>>
  /\ legacyPc = "idle"
  /\ legacyAttempt = 0
  /\ legacyLastError = NoError
  /\ legacyInvocations = 0
  /\ legacySleeps = <<>>
  /\ legacyOutcomes = <<>>

\* no hook is supplied and no region rotation is configured
NoRotation ==
  /\ rotation = <<>>
  /\ hooked = FALSE
  /\ cursor = 0
  /\ regionLog = <<>>
  /\ hookCalls = <<>>
  /\ bonus = 0
  /\ delivered = <<>>

\* no provider instance is in use
NoProvider ==
  /\ configRegion = "europe-west4"
  /\ lastUsedRegion = <<>>
  /\ genaiClient = <<>>
  /\ aiplatformClient = <<>>
  /\ constructed = <<>>
  /\ requests = <<>>

\* generate() is not being called
NoDry ==
  /\ dryProvider = "edenai"
  /\ dryRequest = <<>>
  /\ dryPc = "idle"
  /\ backendCalls = 0
  /\ dryResponse = <<>>

\* no provider entry point is in use
NoEntry == NoProvider /\ NoDry

\* no service is in use
NoService ==
  /\ providers = <<>>
  /\ defaultProvider = "google-cloud"
  /\ registered = 0
  /\ delegations = <<>>

\* no invocations run side by side
NoRuns ==
  /\ runPolicy = <<>>
  /\ runs = <<>>

NoOuter == NoService /\ NoRuns

\* none of the layers around the executor is in use
NoLayers == NoRotation /\ NoEntry /\ NoOuter

\* no error is being classified
NoClassify ==
  /\ backend = [typed |-> FALSE, name |-> "Error", message |-> <<>>]
  /\ context = <<>>
  /\ wrapped = <<>>
  /\ classes = <<>>

(***************************************************************************)
(* executeWithRetry.                                                       *)
(***************************************************************************)
\* mutant: a deadline of 400 ms applies when none is configured
timeoutMsDefaulted ==
  IF retryConfig[1].timeoutMs = Undefined THEN 400
  ELSE IF retryConfig[1].timeoutMs[1] <= 0 THEN 400
  ELSE retryConfig[1].timeoutMs[1]

\* const timeoutMs = retryConfig.timeoutMs || 0
timeoutMs ==
  IF retryConfig[1].timeoutMs = Undefined THEN 0 ELSE retryConfig[1].timeoutMs[1]

\* const maxTimeoutRetries = retryConfig.timeoutRetries ?? 2
maxTimeoutRetries == Nullish(retryConfig[1].timeoutRetries, <<2>>)[1]

\* const maxGeneralRetries = retryConfig.maxRetries
maxGeneralRetries == retryConfig[1].maxRetries[1]

\* mutant: the ceiling counts the general budget only
absoluteMaxAttemptsGeneralOnly == 1 + maxGeneralRetries

\* const absoluteMaxAttempts = 1 + maxGeneralRetries + maxTimeoutRetries
absoluteMaxAttempts == 1 + maxGeneralRetries + maxTimeoutRetries

\* the fixed delay before a timeout retry: await this.sleep(2000)
TimeoutRetryDelayMs == 2000

\* the overrides of delayMs, backoffMultiplier, maxDelayMs and jitter that the
\* requests of the executor specification carry
DelayProfiles ==
  { [delayMs |-> <<10>>, backoffMultiplier |-> Undefined,
     maxDelayMs |-> Undefined, jitter |-> <<FALSE>>],
    [delayMs |-> <<1000>>, backoffMultiplier |-> <<Rat(2, 1)>>,
     maxDelayMs |-> <<3000>>, jitter |-> <<FALSE>>] }

\* the values of request.retry of the executor specification
ExecutorRequests ==
  { RetryLiteral("false"), RetryLiteral("undefined") }
  \cup
  { [ kind |-> "object", maxRetries |-> <<m>>, delayMs |-> p.delayMs,
      backoffMultiplier |-> p.backoffMultiplier, maxDelayMs |-> p.maxDelayMs,
      jitter |-> p.jitter, timeoutMs |-> <<t>>, timeoutRetries |-> <<r>>,
      incrementalBackoff |-> Undefined ] :
      m \in -1..MaxRetriesIn, r \in -1..MaxTimeoutRetriesIn,
      t \in {0, 50, 400}, p \in DelayProfiles }
  \cup
  \* a negative timeoutMs
  { [ kind |-> "object", maxRetries |-> <<1>>, delayMs |-> <<10>>,
      backoffMultiplier |-> Undefined, maxDelayMs |-> Undefined,
      jitter |-> <<FALSE>>, timeoutMs |-> <<-5>>, timeoutRetries |-> <<1>>,
      incrementalBackoff |-> Undefined ] }

\* the state before executeWithRetry(request, operation, operationName)
Init ==
  /\ retry \in ExecutorRequests
  /\ retryConfig = Undefined
  /\ pc = "call"
  /\ attempt = 0
  /\ generalRetryCount = 0
  /\ timeoutRetryCount = 0
  /\ lastError = NoError
  /\ invocations = 0
  /\ sleeps = <<>>
  /\ outcomes = <<>>
  /\ inflight = {}
  /\ history = <<>>
  /\ delays = <<>>
  /\ NoGuard
  /\ NoLayers
  /\ NoLegacy
  /\ NoClassify

\* `return value` to the caller
Return(at) ==
  /\ outcomes' = Append(outcomes, [kind |-> "return", value |-> at, err |-> NoError])
  /\ pc' = "done"

\* `throw error` to the caller
Throw(error) ==
  /\ outcomes' = Append(outcomes, [kind |-> "throw", value |-> 0, err |-> error])
  /\ pc' = "done"

\* entry: resolve the policy; with retries disabled, `return operation()`
Call ==
  /\ pc = "call"
  /\ retryConfig' = resolveRetryConfig(retry)
  /\ IF resolveRetryConfig(retry) = Undefined
       THEN /\ pc' = "bare"
            /\ invocations' = invocations + 1
            /\ inflight' = inflight \cup {1}
            /\ attempt' = 1
       ELSE /\ pc' = "loop"
            /\ attempt' = 1
            /\ UNCHANGED <<invocations, inflight>>
  /\ generalRetryCount' = 0
  /\ timeoutRetryCount' = 0
  /\ lastError' = NoError
  /\ UNCHANGED <<layerVars, legacyVars, classifyVars, guardVars, retry, sleeps, outcomes, history, delays>>

\* retries disabled: the operation's promise fulfils
BareFulfils ==
  /\ pc = "bare"
  /\ inflight' = inflight \ {attempt}
  /\ history' = Append(history, [res |-> "fulfilled", err |-> NoError])
  /\ Return(attempt)
  /\ UNCHANGED <<layerVars, legacyVars, classifyVars, guardVars, retry, retryConfig, attempt, generalRetryCount,
                 timeoutRetryCount, lastError, invocations, sleeps, delays>>

\* retries disabled: the operation's promise rejects
BareRejects ==
  /\ pc = "bare"
  /\ \E key \in OpMessageKeys :
       /\ history' = Append(history, [res |-> "rejected", err |-> OpError(key, attempt)])
       /\ Throw(OpError(key, attempt))
  /\ inflight' = inflight \ {attempt}
  /\ UNCHANGED <<layerVars, legacyVars, classifyVars, guardVars, retry, retryConfig, attempt, generalRetryCount,
                 timeoutRetryCount, lastError, invocations, sleeps, delays>>

\* mutant: the attempt calls operation() once under withTimeout and once bare
StartAttemptInvokesTwice ==
  /\ pc = "loop"
  /\ attempt <= absoluteMaxAttempts
  /\ invocations' = invocations + 2
  /\ inflight' = inflight \cup {attempt}
  /\ pc' = "await"
  /\ UNCHANGED <<layerVars, legacyVars, classifyVars, guardVars, retry, retryConfig, attempt, generalRetryCount,
                 timeoutRetryCount, lastError, sleeps, outcomes, history, delays>>

\* loop test passes: the attempt calls operation(), under withTimeout when
\* timeoutMs > 0
StartAttempt ==
  /\ pc = "loop"
  /\ attempt <= absoluteMaxAttempts
  /\ invocations' = invocations + 1
  /\ inflight' = inflight \cup {attempt}
  /\ pc' = "await"
  /\ UNCHANGED <<layerVars, legacyVars, classifyVars, guardVars, retry, retryConfig, attempt, generalRetryCount,
                 timeoutRetryCount, lastError, sleeps, outcomes, history, delays>>

\* loop test fails: `throw lastError` after the loop
CeilingReached ==
  /\ pc = "loop"
  /\ attempt > absoluteMaxAttempts
  /\ Throw(lastError)
  /\ UNCHANGED <<layerVars, legacyVars, classifyVars, guardVars, retry, retryConfig, attempt, generalRetryCount,
                 timeoutRetryCount, lastError, invocations, sleeps, inflight,
                 history, delays>>

\* mutant: a successful attempt is not returned; the loop goes on
AttemptFulfilsNoReturn ==
  /\ pc = "await"
  /\ attempt \in inflight
  /\ inflight' = inflight \ {attempt}
  /\ history' = Append(history, [res |-> "fulfilled", err |-> NoError])
  /\ pc' = "loop"
  /\ attempt' = attempt + 1
  /\ UNCHANGED <<layerVars, legacyVars, classifyVars, guardVars, retry, retryConfig, generalRetryCount, timeoutRetryCount,
                 lastError, invocations, sleeps, outcomes, delays>>

\* the awaited promise fulfils: `return result`
AttemptFulfils ==
  /\ pc = "await"
  /\ attempt \in inflight
  /\ inflight' = inflight \ {attempt}
  /\ history' = Append(history, [res |-> "fulfilled", err |-> NoError])
  /\ Return(attempt)
  /\ UNCHANGED <<layerVars, legacyVars, classifyVars, guardVars, retry, retryConfig, attempt, generalRetryCount,
                 timeoutRetryCount, lastError, invocations, sleeps, delays>>

\* the values Math.random() may return for one delay computation; without
\* jitter Math.random() is not called
RandomDraws == IF retryConfig[1].jitter[1] THEN RandomNums ELSE {0}

\* mutant: the budgets are tested with >= instead of >
CatchBudgetOffByOne(error) ==
  LET isTimeout == ErrorIsTimeout(error) IN
  /\ lastError' = error
  /\ IF ~isTimeout /\ ~ErrorIsRetryable(error)
       THEN /\ Throw(error)
            /\ UNCHANGED <<generalRetryCount, timeoutRetryCount, sleeps>>
     ELSE IF isTimeout
       THEN /\ timeoutRetryCount' = timeoutRetryCount + 1
            /\ UNCHANGED generalRetryCount
            /\ IF timeoutRetryCount + 1 >= maxTimeoutRetries
                 THEN Throw(error) /\ UNCHANGED sleeps
                 ELSE /\ sleeps' = Append(sleeps, TimeoutRetryDelayMs)
                      /\ pc' = "sleep"
                      /\ UNCHANGED outcomes
     ELSE /\ generalRetryCount' = generalRetryCount + 1
          /\ UNCHANGED timeoutRetryCount
          /\ IF generalRetryCount + 1 >= maxGeneralRetries
               THEN Throw(error) /\ UNCHANGED sleeps
               ELSE /\ \E rnd \in RandomDraws :
                         sleeps' = Append(sleeps,
                           calculateRetryDelay(generalRetryCount + 1, retryConfig[1], rnd))
                    /\ pc' = "sleep"
                    /\ UNCHANGED outcomes

\* mutant: one counter serves both budgets
CatchSharedCounter(error) ==
  LET isTimeout == ErrorIsTimeout(error) IN
  /\ lastError' = error
  /\ IF ~isTimeout /\ ~ErrorIsRetryable(error)
       THEN /\ Throw(error)
            /\ UNCHANGED <<generalRetryCount, timeoutRetryCount, sleeps>>
     ELSE IF isTimeout
       THEN /\ timeoutRetryCount' = timeoutRetryCount + 1
            /\ generalRetryCount' = generalRetryCount + 1
            /\ IF timeoutRetryCount + 1 > maxTimeoutRetries
                 THEN Throw(error) /\ UNCHANGED sleeps
                 ELSE /\ sleeps' = Append(sleeps, TimeoutRetryDelayMs)
                      /\ pc' = "sleep"
                      /\ UNCHANGED outcomes
     ELSE /\ generalRetryCount' = generalRetryCount + 1
          /\ UNCHANGED timeoutRetryCount
          /\ IF generalRetryCount + 1 > maxGeneralRetries
               THEN Throw(error) /\ UNCHANGED sleeps
               ELSE /\ \E rnd \in RandomDraws :
                         sleeps' = Append(sleeps,
                           calculateRetryDelay(generalRetryCount + 1, retryConfig[1], rnd))
                    /\ pc' = "sleep"
                    /\ UNCHANGED outcomes

\* mutant: the budget of a non-retryable error is counted before it is rethrown
CatchCountsNonRetryable(error) ==
  LET isTimeout == ErrorIsTimeout(error) IN
  /\ lastError' = error
  /\ IF ~isTimeout /\ ~ErrorIsRetryable(error)
       THEN /\ Throw(error)
            /\ generalRetryCount' = generalRetryCount + 1
            /\ UNCHANGED <<timeoutRetryCount, sleeps>>
     ELSE IF isTimeout
       THEN /\ timeoutRetryCount' = timeoutRetryCount + 1
            /\ UNCHANGED generalRetryCount
            /\ IF timeoutRetryCount + 1 > maxTimeoutRetries
                 THEN Throw(error) /\ UNCHANGED sleeps
                 ELSE /\ sleeps' = Append(sleeps, TimeoutRetryDelayMs)
                      /\ pc' = "sleep"
                      /\ UNCHANGED outcomes
     ELSE /\ generalRetryCount' = generalRetryCount + 1
          /\ UNCHANGED timeoutRetryCount
          /\ IF generalRetryCount + 1 > maxGeneralRetries
               THEN Throw(error) /\ UNCHANGED sleeps
               ELSE /\ \E rnd \in RandomDraws :
                         sleeps' = Append(sleeps,
                           calculateRetryDelay(generalRetryCount + 1, retryConfig[1], rnd))
                    /\ pc' = "sleep"
                    /\ UNCHANGED outcomes

\* mutant: on exhaustion the first error of the invocation is thrown
CatchThrowsFirstError(error) ==
  LET isTimeout == ErrorIsTimeout(error)
      first == IF history = <<>> THEN error ELSE history[1].err
  IN
  /\ lastError' = error
  /\ IF ~isTimeout /\ ~ErrorIsRetryable(error)
       THEN /\ Throw(error)
            /\ UNCHANGED <<generalRetryCount, timeoutRetryCount, sleeps>>
     ELSE IF isTimeout
       THEN /\ timeoutRetryCount' = timeoutRetryCount + 1
            /\ UNCHANGED generalRetryCount
            /\ IF timeoutRetryCount + 1 > maxTimeoutRetries
                 THEN Throw(first) /\ UNCHANGED sleeps
                 ELSE /\ sleeps' = Append(sleeps, TimeoutRetryDelayMs)
                      /\ pc' = "sleep"
                      /\ UNCHANGED outcomes
     ELSE /\ generalRetryCount' = generalRetryCount + 1
          /\ UNCHANGED timeoutRetryCount
          /\ IF generalRetryCount + 1 > maxGeneralRetries
               THEN Throw(first) /\ UNCHANGED sleeps
               ELSE /\ \E rnd \in RandomDraws :
                         sleeps' = Append(sleeps,
                           calculateRetryDelay(generalRetryCount + 1, retryConfig[1], rnd))
                    /\ pc' = "sleep"
                    /\ UNCHANGED outcomes

\* mutant: the backoff is computed from the overall attempt index
CatchBackoffFromAttempt(error) ==
  LET isTimeout == ErrorIsTimeout(error) IN
  /\ lastError' = error
  /\ IF ~isTimeout /\ ~ErrorIsRetryable(error)
       THEN /\ Throw(error)
            /\ UNCHANGED <<generalRetryCount, timeoutRetryCount, sleeps>>
     ELSE IF isTimeout
       THEN /\ timeoutRetryCount' = timeoutRetryCount + 1
            /\ UNCHANGED generalRetryCount
            /\ IF timeoutRetryCount + 1 > maxTimeoutRetries
                 THEN Throw(error) /\ UNCHANGED sleeps
                 ELSE /\ sleeps' = Append(sleeps, TimeoutRetryDelayMs)
                      /\ pc' = "sleep"
                      /\ UNCHANGED outcomes
     ELSE /\ generalRetryCount' = generalRetryCount + 1
          /\ UNCHANGED timeoutRetryCount
          /\ IF generalRetryCount + 1 > maxGeneralRetries
               THEN Throw(error) /\ UNCHANGED sleeps
               ELSE /\ \E rnd \in RandomDraws :
                         sleeps' = Append(sleeps,
                           calculateRetryDelay(attempt, retryConfig[1], rnd))
                    /\ pc' = "sleep"
                    /\ UNCHANGED outcomes

\* mutant: a timeout retry sleeps the backoff delay instead of the fixed one
CatchTimeoutBackoff(error) ==
  LET isTimeout == ErrorIsTimeout(error) IN
  /\ lastError' = error
  /\ IF ~isTimeout /\ ~ErrorIsRetryable(error)
       THEN /\ Throw(error)
            /\ UNCHANGED <<generalRetryCount, timeoutRetryCount, sleeps>>
     ELSE IF isTimeout
       THEN /\ timeoutRetryCount' = timeoutRetryCount + 1
            /\ UNCHANGED generalRetryCount
            /\ IF timeoutRetryCount + 1 > maxTimeoutRetries
                 THEN Throw(error) /\ UNCHANGED sleeps
                 ELSE /\ \E rnd \in RandomDraws :
                           sleeps' = Append(sleeps,
                             calculateRetryDelay(timeoutRetryCount + 1, retryConfig[1], rnd))
                      /\ pc' = "sleep"
                      /\ UNCHANGED outcomes
     ELSE /\ generalRetryCount' = generalRetryCount + 1
          /\ UNCHANGED timeoutRetryCount
          /\ IF generalRetryCount + 1 > maxGeneralRetries
               THEN Throw(error) /\ UNCHANGED sleeps
               ELSE /\ \E rnd \in RandomDraws :
                         sleeps' = Append(sleeps,
                           calculateRetryDelay(generalRetryCount + 1, retryConfig[1], rnd))
                    /\ pc' = "sleep"
                    /\ UNCHANGED outcomes

\* mutant: the message rules are applied before the timeout test
CatchMessageRulesFirst(error) ==
  LET isTimeout == ErrorIsTimeout(error) IN
  /\ lastError' = error
  /\ IF ~ErrorIsRetryable(error)
       THEN /\ Throw(error)
            /\ UNCHANGED <<generalRetryCount, timeoutRetryCount, sleeps>>
     ELSE IF isTimeout
       THEN /\ timeoutRetryCount' = timeoutRetryCount + 1
            /\ UNCHANGED generalRetryCount
            /\ IF timeoutRetryCount + 1 > maxTimeoutRetries
                 THEN Throw(error) /\ UNCHANGED sleeps
                 ELSE /\ sleeps' = Append(sleeps, TimeoutRetryDelayMs)
                      /\ pc' = "sleep"
                      /\ UNCHANGED outcomes
     ELSE /\ generalRetryCount' = generalRetryCount + 1
          /\ UNCHANGED timeoutRetryCount
          /\ IF generalRetryCount + 1 > maxGeneralRetries
               THEN Throw(error) /\ UNCHANGED sleeps
               ELSE /\ \E rnd \in RandomDraws :
                         sleeps' = Append(sleeps,
                           calculateRetryDelay(generalRetryCount + 1, retryConfig[1], rnd))
                    /\ pc' = "sleep"
                    /\ UNCHANGED outcomes

\* the catch block of the attempt loop, for the caught error
Catch(error) ==
  LET isTimeout == ErrorIsTimeout(error) IN
  /\ lastError' = error
  /\ IF ~isTimeout /\ ~ErrorIsRetryable(error)
       \* non-retryable: throw error
       THEN /\ Throw(error)
            /\ UNCHANGED <<generalRetryCount, timeoutRetryCount, sleeps>>
     ELSE IF isTimeout
       THEN /\ timeoutRetryCount' = timeoutRetryCount + 1
            /\ UNCHANGED generalRetryCount
            /\ IF timeoutRetryCount + 1 > maxTimeoutRetries
                 THEN Throw(error) /\ UNCHANGED sleeps
                 ELSE /\ sleeps' = Append(sleeps, TimeoutRetryDelayMs)
                      /\ pc' = "sleep"
                      /\ UNCHANGED outcomes
     ELSE /\ generalRetryCount' = generalRetryCount + 1
          /\ UNCHANGED timeoutRetryCount
          /\ IF generalRetryCount + 1 > maxGeneralRetries
               THEN Throw(error) /\ UNCHANGED sleeps
               ELSE /\ \E rnd \in RandomDraws :
                         sleeps' = Append(sleeps,
                           calculateRetryDelay(generalRetryCount + 1, retryConfig[1], rnd))
                    /\ pc' = "sleep"
                    /\ UNCHANGED outcomes

\* the operation's promise rejects while it is awaited: withTimeout (or the
\* bare await) passes the error on and the catch block runs
AttemptRejects ==
  /\ pc = "await"
  /\ attempt \in inflight
  /\ \E key \in OpMessageKeys :
       /\ history' = Append(history, [res |-> "rejected", err |-> OpError(key, attempt)])
       /\ Catch(OpError(key, attempt))
  /\ inflight' = inflight \ {attempt}
  /\ UNCHANGED <<layerVars, legacyVars, classifyVars, guardVars, retry, retryConfig, attempt, invocations, delays>>

\* withTimeout's timer fires before the operation settles: the guard rejects
\* with the timeout error, the operation keeps running, the catch block runs
TimerFires ==
  /\ pc = "await"
  /\ attempt \in inflight
  /\ timeoutMs > 0
  /\ history' = Append(history,
                  [res |-> "rejected", err |-> GuardError(timeoutMs, attempt)])
  /\ Catch(GuardError(timeoutMs, attempt))
  /\ UNCHANGED <<layerVars, legacyVars, classifyVars, guardVars, retry, retryConfig, attempt, invocations, inflight, delays>>

\* `await this.sleep(delay)` completes: attempt++ and back to the loop test
SleepDone ==
  /\ pc = "sleep"
  /\ pc' = "loop"
  /\ attempt' = attempt + 1
  /\ UNCHANGED <<layerVars, legacyVars, classifyVars, guardVars, retry, retryConfig, generalRetryCount, timeoutRetryCount,
                 lastError, invocations, sleeps, outcomes, inflight, history,
                 delays>>

\* an operation abandoned by its timeout settles later: its then/catch call
\* clearTimeout and resolve/reject on the already settled promise
AbandonedSettles ==
  /\ \E a \in inflight :
       /\ ~(pc \in {"await", "bare"} /\ a = attempt)
       /\ inflight' = inflight \ {a}
  /\ UNCHANGED <<layerVars, legacyVars, classifyVars, guardVars, retry, retryConfig, pc, attempt, generalRetryCount,
                 timeoutRetryCount, lastError, invocations, sleeps, outcomes,
                 history, delays>>

Next ==
  \/ Call
  \/ BareFulfils
  \/ BareRejects
  \/ StartAttempt
  \/ CeilingReached
  \/ AttemptFulfils
  \/ AttemptRejects
  \/ TimerFires
  \/ SleepDone
  \/ AbandonedSettles

Spec == Init /\ [][Next]_vars

\* the steps of the executor itself: every pending attempt settles or times
\* out and every sleep completes; an abandoned operation need never settle
Progress ==
  \/ Call
  \/ BareFulfils
  \/ BareRejects
  \/ StartAttempt
  \/ CeilingReached
  \/ AttemptFulfils
  \/ AttemptRejects
  \/ TimerFires
  \/ SleepDone

FairSpec == Init /\ [][Next]_vars /\ WF_vars(Progress)

(***************************************************************************)
(* The onRetry hook of the executor and the RegionRotator around it.  The  *)
(* executor is the one above; the hook call, the region cursor and the     *)
(* bonus fallback attempt follow sections 4.5 and 4.6 of the design.       *)
(***************************************************************************)
\* largest maxRetries and timeoutRetries of the rotating requests
MaxRotationRetries == 5

MaxRotationTimeoutRetries == 1

\* the messages the backend fails with under rotation: quota, server, auth
RotationMessageKeys == {"429", "503", "401"}

\* the markers of a Quota failure
QuotaMarkers == {
  <<"4","2","9">>,
  <<"r","e","s","o","u","r","c","e"," ","e","x","h","a","u","s","t","e","d">>,
  <<"q","u","o","t","a"," ","e","x","c","e","e","d","e","d">>,
  <<"t","o","o"," ","m","a","n","y"," ","r","e","q","u","e","s","t","s">>,
  <<"r","a","t","e"," ","l","i","m","i","t">> }

\* mutant: every transient failure counts as a Quota failure
isQuotaErrorAnyTransient(message) == isRetryableError(message)

\* Quota: a transient failure whose message carries a quota marker
isQuotaError(message) ==
  /\ ~isTimeoutError(message)
  /\ isRetryableError(message)
  /\ \E k \in QuotaMarkers : includes(toLowerCase(message), k)

\* isQuotaError, evaluated once per error of the model
IsQuotaTable == [e \in ErrorShapes |-> isQuotaError(ErrorMessage(e))]

ErrorIsQuota(error) == IsQuotaTable[[error EXCEPT !.at = 0]]

\* the region every attempt runs on when no rotation is configured, and the
\* first candidate of every rotation (config.region)
ConfiguredRegion == "A"

\* the fallback region of the rotation configs
FallbackRegion == "F"

\* the regionRotation configs: candidates shorter and longer than the
\* budget, alwaysTryFallback left out, true and false
RotationConfigs ==
  { [regions |-> <<"A", "B">>, fallback |-> FallbackRegion,
     alwaysTryFallback |-> <<TRUE>>],
    [regions |-> <<"A", "B", "C">>, fallback |-> FallbackRegion,
     alwaysTryFallback |-> Undefined] }
  \cup
  { [regions |-> <<"A", "B", "C", "D", "E">>, fallback |-> FallbackRegion,
     alwaysTryFallback |-> a] : a \in {Undefined, <<FALSE>>} }

\* request.retry of the rotating requests (as in the rotation tests:
\* delayMs 1, jitter false), with the per-attempt timeout armed
RotationRetries ==
  { [ kind |-> "object", maxRetries |-> <<m>>, delayMs |-> <<1>>,
      backoffMultiplier |-> Undefined, maxDelayMs |-> Undefined,
      jitter |-> <<FALSE>>, timeoutMs |-> <<50>>, timeoutRetries |-> <<r>>,
      incrementalBackoff |-> Undefined ] :
      m \in 0..MaxRotationRetries, r \in 0..MaxRotationTimeoutRetries }

\* rotation is configured
Rotating == rotation # Undefined

\* alwaysTryFallback, default true
alwaysTryFallback == Nullish(rotation[1].alwaysTryFallback, <<TRUE>>)[1]

\* mutant: the cursor wraps around to the first candidate after the list
RegionAtWraps(c) ==
  IF ~Rotating THEN ConfiguredRegion
  ELSE rotation[1].regions[(c % Len(rotation[1].regions)) + 1]

\* the region the cursor selects: candidate c, or the fallback once the
\* list is exhausted
RegionAt(c) ==
  IF ~Rotating THEN ConfiguredRegion
  ELSE IF c < Len(rotation[1].regions) THEN rotation[1].regions[c + 1]
  ELSE rotation[1].fallback

\* mutant: the cursor advances on every failure that is retried
AdvanceCursorOnEveryRetry(c, error) == IF Rotating THEN c + 1 ELSE c

\* mutant: the cursor skips a candidate on a Quota failure
AdvanceCursorByTwo(c, error) ==
  IF Rotating /\ ErrorIsQuota(error) THEN c + 2 ELSE c

\* mutant: the cursor advances on Quota with no rotation configured as well
AdvanceCursorWithoutRotation(c, error) ==
  IF ErrorIsQuota(error) THEN c + 1 ELSE c

\* the cursor after a failure that is retried: it advances on Quota only and
\* stops past the end of the list (the fallback)
AdvanceCursor(c, error) ==
  IF Rotating /\ ErrorIsQuota(error)
    THEN (IF c < Len(rotation[1].regions) THEN c + 1 ELSE c)
    ELSE c

\* mutant: the hook is also called for the failure that ends the invocation
onRetryOnEveryFailure(calls, error, n, retried) ==
  IF hooked THEN Append(calls, [err |-> error, n |-> n, calls |-> invocations])
  ELSE calls

\* mutant: the hook is given the number of the next attempt
onRetryNextAttempt(calls, error, n, retried) ==
  IF hooked /\ retried
    THEN Append(calls, [err |-> error, n |-> n + 1, calls |-> invocations])
    ELSE calls

\* onRetry(error, attempt) is invoked before the sleep of a retry, if supplied
onRetry(calls, error, n, retried) ==
  IF hooked /\ retried
    THEN Append(calls, [err |-> error, n |-> n, calls |-> invocations])
    ELSE calls

\* the state before generate() of a provider with this rotation config
InitRotation ==
  /\ retry \in RotationRetries
  /\ rotation \in {Undefined} \cup { <<c>> : c \in RotationConfigs }
  /\ hooked \in BOOLEAN
  /\ retryConfig = Undefined
  /\ pc = "call"
  /\ attempt = 0
  /\ generalRetryCount = 0
  /\ timeoutRetryCount = 0
  /\ lastError = NoError
  /\ invocations = 0
  /\ sleeps = <<>>
  /\ outcomes = <<>>
  /\ inflight = {}
  /\ history = <<>>
  /\ delays = <<>>
  /\ cursor = 0
  /\ regionLog = <<>>
  /\ hookCalls = <<>>
  /\ bonus = 0
  /\ delivered = <<>>
  /\ NoEntry
  /\ NoOuter
  /\ NoGuard
  /\ NoLegacy
  /\ NoClassify

\* the loop test passes: the operation is bound to the region the cursor
\* selects and called
RotatorStartAttempt ==
  /\ pc = "loop"
  /\ attempt <= absoluteMaxAttempts
  /\ invocations' = invocations + 1
  /\ inflight' = inflight \cup {attempt}
  /\ regionLog' = Append(regionLog, RegionAt(cursor))
  /\ pc' = "await"
  /\ UNCHANGED <<outerVars, entryVars, legacyVars, classifyVars, guardVars, retry, retryConfig,
                 attempt, generalRetryCount, timeoutRetryCount, lastError,
                 sleeps, outcomes, history, delays, rotation, hooked, cursor,
                 hookCalls, bonus, delivered>>

\* the catch block, then the hook and the cursor when the failure is retried
RotatorCatch(error) ==
  /\ Catch(error)
  /\ hookCalls' = onRetry(hookCalls, error, attempt, pc' = "sleep")
  /\ cursor' = IF pc' = "sleep" THEN AdvanceCursor(cursor, error) ELSE cursor

\* the awaited operation rejects
RotatorAttemptRejects ==
  /\ pc = "await"
  /\ attempt \in inflight
  /\ \E key \in RotationMessageKeys :
       /\ history' = Append(history, [res |-> "rejected", err |-> OpError(key, attempt)])
       /\ RotatorCatch(OpError(key, attempt))
  /\ inflight' = inflight \ {attempt}
  /\ UNCHANGED <<outerVars, entryVars, legacyVars, classifyVars, guardVars, retry, retryConfig,
                 attempt, invocations, delays, rotation, hooked, regionLog,
                 bonus, delivered>>

\* the per-attempt timer fires first
RotatorTimerFires ==
  /\ pc = "await"
  /\ attempt \in inflight
  /\ timeoutMs > 0
  /\ history' = Append(history,
                  [res |-> "rejected", err |-> GuardError(timeoutMs, attempt)])
  /\ RotatorCatch(GuardError(timeoutMs, attempt))
  /\ UNCHANGED <<outerVars, entryVars, legacyVars, classifyVars, guardVars, retry, retryConfig,
                 attempt, invocations, inflight, delays, rotation, hooked,
                 regionLog, bonus, delivered>>

\* the executor threw because the general budget is exhausted
GeneralBudgetExhausted ==
  /\ pc = "done"
  /\ outcomes # <<>>
  /\ outcomes[1].kind = "throw"
  /\ generalRetryCount > maxGeneralRetries

\* mutant: the bonus attempt is made whatever region was tried last
BonusDueIgnoresLastRegion ==
  /\ Rotating
  /\ GeneralBudgetExhausted
  /\ alwaysTryFallback

\* mutant: the bonus attempt is made also with alwaysTryFallback false
BonusDueIgnoresFlag ==
  /\ Rotating
  /\ GeneralBudgetExhausted
  /\ regionLog[Len(regionLog)] # rotation[1].fallback

\* mutant: the bonus attempt follows every failed invocation
BonusDueAfterAnyFailure ==
  /\ Rotating
  /\ pc = "done" /\ outcomes # <<>> /\ outcomes[1].kind = "throw"
  /\ regionLog # <<>>
  /\ regionLog[Len(regionLog)] # rotation[1].fallback
  /\ alwaysTryFallback

\* the bonus fallback attempt is due: general budget exhausted, the region
\* tried last is not the fallback, alwaysTryFallback
BonusDue ==
  /\ Rotating
  /\ GeneralBudgetExhausted
  /\ regionLog[Len(regionLog)] # rotation[1].fallback
  /\ alwaysTryFallback

\* the executor is done and no bonus attempt is due: its result or error is
\* the caller's
RotatorDelivers ==
  /\ pc = "done"
  /\ delivered = <<>>
  /\ bonus = 0
  /\ ~BonusDue
  /\ delivered' = <<outcomes[1]>>
  /\ UNCHANGED <<outerVars, entryVars, legacyVars, classifyVars, guardVars, retry, retryConfig, pc,
                 attempt, generalRetryCount, timeoutRetryCount, lastError,
                 invocations, sleeps, outcomes, inflight, history, delays,
                 rotation, hooked, cursor, regionLog, hookCalls, bonus>>

\* mutant: the bonus attempt is repeated while it fails
RotatorBonusStartRepeats ==
  /\ pc \in {"done", "bonus"}
  /\ delivered = <<>>
  /\ bonus <= 1
  /\ BonusDue \/ pc = "bonus"
  /\ bonus' = bonus + 1
  /\ invocations' = invocations + 1
  /\ regionLog' = Append(regionLog, rotation[1].fallback)
  /\ pc' = "bonus"
  /\ UNCHANGED <<outerVars, entryVars, legacyVars, classifyVars, guardVars, retry, retryConfig,
                 attempt, generalRetryCount, timeoutRetryCount, lastError,
                 sleeps, outcomes, inflight, history, delays, rotation, hooked,
                 cursor, hookCalls, delivered>>

\* the bonus attempt: one more call of the operation, bound to the fallback
RotatorBonusStart ==
  /\ pc = "done"
  /\ delivered = <<>>
  /\ bonus = 0
  /\ BonusDue
  /\ bonus' = 1
  /\ invocations' = invocations + 1
  /\ regionLog' = Append(regionLog, rotation[1].fallback)
  /\ pc' = "bonus"
  /\ UNCHANGED <<outerVars, entryVars, legacyVars, classifyVars, guardVars, retry, retryConfig,
                 attempt, generalRetryCount, timeoutRetryCount, lastError,
                 sleeps, outcomes, inflight, history, delays, rotation, hooked,
                 cursor, hookCalls, delivered>>

\* mutant: the result of a successful bonus attempt is dropped and the
\* error of the exhausted budget is thrown
RotatorBonusFulfilsDropsResult ==
  /\ pc = "bonus"
  /\ history' = Append(history, [res |-> "fulfilled", err |-> NoError])
  /\ delivered' = <<outcomes[1]>>
  /\ pc' = "done"
  /\ UNCHANGED <<outerVars, entryVars, legacyVars, classifyVars, guardVars, retry, retryConfig,
                 attempt, generalRetryCount, timeoutRetryCount, lastError,
                 invocations, sleeps, outcomes, inflight, delays,
                 rotation, hooked, cursor, regionLog, hookCalls, bonus>>

\* the bonus attempt succeeds: its result is returned
RotatorBonusFulfils ==
  /\ pc = "bonus"
  /\ history' = Append(history, [res |-> "fulfilled", err |-> NoError])
  /\ delivered' = <<[kind |-> "return", value |-> invocations, err |-> NoError]>>
  /\ pc' = "done"
  /\ UNCHANGED <<outerVars, entryVars, legacyVars, classifyVars, guardVars, retry, retryConfig,
                 attempt, generalRetryCount, timeoutRetryCount, lastError,
                 invocations, sleeps, outcomes, inflight, delays,
                 rotation, hooked, cursor, regionLog, hookCalls, bonus>>

\* the bonus attempt fails too: which of the two errors the caller receives
\* is left open, so either may be thrown
RotatorBonusRejects ==
  /\ pc = "bonus"
  /\ \E key \in RotationMessageKeys :
       /\ history' = Append(history,
                       [res |-> "rejected", err |-> OpError(key, invocations)])
       /\ \E surfaced \in {outcomes[1].err, OpError(key, invocations)} :
            delivered' = <<[kind |-> "throw", value |-> 0, err |-> surfaced]>>
  /\ pc' = "done"
  /\ UNCHANGED <<outerVars, entryVars, legacyVars, classifyVars, guardVars, retry, retryConfig,
                 attempt, generalRetryCount, timeoutRetryCount, lastError,
                 invocations, sleeps, outcomes, inflight, delays,
                 rotation, hooked, cursor, regionLog, hookCalls, bonus>>

NextRotation ==
  \/ Call
  \/ RotatorStartAttempt
  \/ AttemptFulfils
  \/ RotatorAttemptRejects
  \/ RotatorTimerFires
  \/ SleepDone
  \/ RotatorDelivers
  \/ RotatorBonusStart
  \/ RotatorBonusFulfils
  \/ RotatorBonusRejects

SpecRotation == InitRotation /\ [][NextRotation]_vars

(***************************************************************************)
(* The legacy executor (the BaseTTIProvider of tti.service.ts) and the     *)
(* current one, run side by side on the same request against an operation  *)
(* that meets rate-limit failures only.                                    *)
(***************************************************************************)
\* the legacy DEFAULT_RETRY_OPTIONS
LEGACY_DEFAULT_RETRY_OPTIONS ==
  [ maxRetries |-> <<2>>, delayMs |-> <<1000>>, incrementalBackoff |-> <<FALSE>> ]

\* legacy resolveRetryConfig(request), on request.retry; Undefined is null
legacyResolveRetryConfig(retryOption) ==
  IF retryOption.kind = "false" THEN Undefined
  ELSE IF retryOption.kind \in {"undefined", "true"}
    THEN <<LEGACY_DEFAULT_RETRY_OPTIONS>>
  ELSE <<[ maxRetries |-> Nullish(retryOption.maxRetries,
                                  LEGACY_DEFAULT_RETRY_OPTIONS.maxRetries),
           delayMs |-> Nullish(retryOption.delayMs,
                               LEGACY_DEFAULT_RETRY_OPTIONS.delayMs),
           incrementalBackoff |->
             Nullish(retryOption.incrementalBackoff,
                     LEGACY_DEFAULT_RETRY_OPTIONS.incrementalBackoff) ]>>

\* legacy calculateRetryDelay(attempt, config)
legacyCalculateRetryDelay(n, config) ==
  IF config.incrementalBackoff[1]
    THEN config.delayMs[1] * n
    ELSE config.delayMs[1]

\* legacy isRateLimitError(error), on error.message
legacyIsRateLimitError(message) ==
  LET m == toLowerCase(message) IN
  \/ includes(m, <<"4","2","9">>)
  \/ includes(m, <<"r","a","t","e"," ","l","i","m","i","t">>)
  \/ includes(m, <<"q","u","o","t","a"," ","e","x","c","e","e","d","e","d">>)
  \/ includes(m, <<"t","o","o"," ","m","a","n","y"," ","r","e","q","u","e","s","t","s">>)
  \/ includes(m, <<"r","e","s","o","u","r","c","e"," ","e","x","h","a","u","s","t","e","d">>)

\* legacy: const maxAttempts = 1 + retryConfig.maxRetries
legacyMaxAttempts == 1 + legacyConfig[1].maxRetries[1]

\* the requests that use legacy options only
LegacyRequests ==
  { RetryLiteral("false") }
  \cup
  { [ kind |-> "object", maxRetries |-> <<m>>, delayMs |-> <<1000>>,
      backoffMultiplier |-> Undefined, maxDelayMs |-> Undefined,
      jitter |-> Undefined, timeoutMs |-> Undefined,
      timeoutRetries |-> Undefined, incrementalBackoff |-> i ] :
      m \in 0..MaxRetriesIn, i \in {Undefined, <<TRUE>>, <<FALSE>>} }

\* the operation rejects with the rate-limit error on call number n
OperationFailsOn(n) == n <= failures

InitCompat ==
  /\ retry \in LegacyRequests
  /\ retryConfig = Undefined
  /\ pc = "call"
  /\ attempt = 0
  /\ generalRetryCount = 0
  /\ timeoutRetryCount = 0
  /\ lastError = NoError
  /\ invocations = 0
  /\ sleeps = <<>>
  /\ outcomes = <<>>
  /\ inflight = {}
  /\ history = <<>>
  /\ delays = <<>>
  /\ NoGuard
  /\ NoLayers
  /\ NoClassify
  /\ failures \in 0..(MaxRetriesIn + 1)
  /\ legacyConfig = <<>>
  /\ legacyPc = "call"
  /\ legacyAttempt = 0
  /\ legacyLastError = NoError
  /\ legacyInvocations = 0
  /\ legacySleeps = <<>>
  /\ legacyOutcomes = <<>>

\* legacy entry: resolve the policy; without one, `return operation()`
LegacyCall ==
  /\ legacyPc = "call"
  /\ legacyConfig' = legacyResolveRetryConfig(retry)
  /\ IF legacyResolveRetryConfig(retry) = Undefined
       THEN /\ legacyPc' = "bare"
            /\ legacyInvocations' = legacyInvocations + 1
       ELSE /\ legacyPc' = "loop"
            /\ UNCHANGED legacyInvocations
  /\ legacyAttempt' = 1
  /\ legacyLastError' = NoError
  /\ UNCHANGED <<layerVars, classifyVars, guardVars, retry, retryConfig, pc, attempt,
                 generalRetryCount, timeoutRetryCount, lastError, invocations,
                 sleeps, outcomes, inflight, history, delays, failures,
                 legacySleeps, legacyOutcomes>>

\* legacy, no policy: the promise of operation() settles
LegacyBareSettles ==
  /\ legacyPc = "bare"
  /\ legacyOutcomes' = Append(legacyOutcomes,
        IF OperationFailsOn(legacyAttempt)
          THEN [kind |-> "throw", value |-> 0, err |-> OpError("429", legacyAttempt)]
          ELSE [kind |-> "return", value |-> legacyAttempt, err |-> NoError])
  /\ legacyPc' = "done"
  /\ UNCHANGED <<layerVars, classifyVars, guardVars, retry, retryConfig, pc, attempt,
                 generalRetryCount, timeoutRetryCount, lastError, invocations,
                 sleeps, outcomes, inflight, history, delays, failures,
                 legacyConfig, legacyAttempt, legacyLastError,
                 legacyInvocations, legacySleeps>>

\* legacy loop test passes: the attempt calls operation()
LegacyStartAttempt ==
  /\ legacyPc = "loop"
  /\ legacyAttempt <= legacyMaxAttempts
  /\ legacyInvocations' = legacyInvocations + 1
  /\ legacyPc' = "await"
  /\ UNCHANGED <<layerVars, classifyVars, guardVars, retry, retryConfig, pc, attempt,
                 generalRetryCount, timeoutRetryCount, lastError, invocations,
                 sleeps, outcomes, inflight, history, delays, failures,
                 legacyConfig, legacyAttempt, legacyLastError, legacySleeps,
                 legacyOutcomes>>

\* legacy loop test fails: `throw lastError` (all retries exhausted)
LegacyExhausted ==
  /\ legacyPc = "loop"
  /\ legacyAttempt > legacyMaxAttempts
  /\ legacyOutcomes' = Append(legacyOutcomes,
        [kind |-> "throw", value |-> 0, err |-> legacyLastError])
  /\ legacyPc' = "done"
  /\ UNCHANGED <<layerVars, classifyVars, guardVars, retry, retryConfig, pc, attempt,
                 generalRetryCount, timeoutRetryCount, lastError, invocations,
                 sleeps, outcomes, inflight, history, delays, failures,
                 legacyConfig, legacyAttempt, legacyLastError,
                 legacyInvocations, legacySleeps>>

\* legacy: `return await operation()` when the promise fulfils
LegacyAttemptFulfils ==
  /\ legacyPc = "await"
  /\ ~OperationFailsOn(legacyAttempt)
  /\ legacyOutcomes' = Append(legacyOutcomes,
        [kind |-> "return", value |-> legacyAttempt, err |-> NoError])
  /\ legacyPc' = "done"
  /\ UNCHANGED <<layerVars, classifyVars, guardVars, retry, retryConfig, pc, attempt,
                 generalRetryCount, timeoutRetryCount, lastError, invocations,
                 sleeps, outcomes, inflight, history, delays, failures,
                 legacyConfig, legacyAttempt, legacyLastError,
                 legacyInvocations, legacySleeps>>

\* legacy catch block: rethrow unless rate limit; sleep when attempts remain;
\* the loop then increments attempt
LegacyAttemptRejects ==
  /\ legacyPc = "await"
  /\ OperationFailsOn(legacyAttempt)
  /\ LET error == OpError("429", legacyAttempt) IN
       /\ legacyLastError' = error
       /\ IF ~legacyIsRateLimitError(ErrorMessage(error))
            THEN /\ legacyOutcomes' = Append(legacyOutcomes,
                       [kind |-> "throw", value |-> 0, err |-> error])
                 /\ legacyPc' = "done"
                 /\ UNCHANGED <<legacySleeps, legacyAttempt>>
            ELSE /\ legacySleeps' =
                       IF legacyAttempt < legacyMaxAttempts
                         THEN Append(legacySleeps,
                                legacyCalculateRetryDelay(legacyAttempt, legacyConfig[1]))
                         ELSE legacySleeps
                 /\ legacyAttempt' = legacyAttempt + 1
                 /\ legacyPc' = "loop"
                 /\ UNCHANGED legacyOutcomes
  /\ UNCHANGED <<layerVars, classifyVars, guardVars, retry, retryConfig, pc, attempt,
                 generalRetryCount, timeoutRetryCount, lastError, invocations,
                 sleeps, outcomes, inflight, history, delays, failures,
                 legacyConfig, legacyInvocations>>

\* the current executor facing the same operation: attempt n fulfils
CurrentAttemptFulfils == ~OperationFailsOn(attempt) /\ AttemptFulfils

\* the current executor facing the same operation: attempt n rejects (429)
CurrentAttemptRejects ==
  /\ OperationFailsOn(attempt)
  /\ AttemptRejects
  /\ history'[Len(history')].err.msg = "429"

\* the current executor, retries disabled, facing the same operation
CurrentBareFulfils == ~OperationFailsOn(attempt) /\ BareFulfils

CurrentBareRejects ==
  /\ OperationFailsOn(attempt)
  /\ BareRejects
  /\ history'[Len(history')].err.msg = "429"

NextCompat ==
  \/ Call
  \/ StartAttempt
  \/ CurrentAttemptFulfils
  \/ CurrentAttemptRejects
  \/ CurrentBareFulfils
  \/ CurrentBareRejects
  \/ SleepDone
  \/ LegacyCall
  \/ LegacyBareSettles
  \/ LegacyStartAttempt
  \/ LegacyExhausted
  \/ LegacyAttemptFulfils
  \/ LegacyAttemptRejects

SpecCompat == InitCompat /\ [][NextCompat]_vars

(***************************************************************************)
(* resolveRetryConfig on its own: every request.retry of ResolveRequests   *)
(* is resolved once.                                                       *)
(***************************************************************************)
\* the values of request.retry the policy resolver is applied to
ResolveRequests ==
  { RetryLiteral("false"), RetryLiteral("true"), RetryLiteral("undefined") }
  \cup
  [ kind : {"object"},
    maxRetries : {Undefined, <<0>>, <<5>>},
    delayMs : {Undefined, <<2000>>, <<40000>>},
    backoffMultiplier : {Undefined, <<Rat(3, 1)>>},
    maxDelayMs : {Undefined, <<60000>>},
    jitter : {Undefined, <<FALSE>>, <<TRUE>>},
    timeoutMs : {Undefined, <<0>>},
    timeoutRetries : {Undefined, <<0>>},
    incrementalBackoff : {Undefined, <<TRUE>>, <<FALSE>>} ]

InitResolve ==
  /\ retry \in ResolveRequests
  /\ retryConfig = Undefined
  /\ pc = "resolve"
  /\ attempt = 0
  /\ generalRetryCount = 0
  /\ timeoutRetryCount = 0
  /\ lastError = NoError
  /\ invocations = 0
  /\ sleeps = <<>>
  /\ outcomes = <<>>
  /\ inflight = {}
  /\ history = <<>>
  /\ delays = <<>>
  /\ NoGuard
  /\ NoLayers
  /\ NoLegacy
  /\ NoClassify

\* const retryConfig = this.resolveRetryConfig(request)
ResolveStep ==
  /\ pc = "resolve"
  /\ retryConfig' = resolveRetryConfig(retry)
  /\ pc' = "resolved"
  /\ UNCHANGED <<layerVars, legacyVars, classifyVars, guardVars, retry, attempt, generalRetryCount, timeoutRetryCount,
                 lastError, invocations, sleeps, outcomes, inflight, history,
                 delays>>

NextResolve == ResolveStep

SpecResolve == InitResolve /\ [][NextResolve]_vars

(***************************************************************************)
(* calculateRetryDelay on its own: for every policy of DelayConfigs the    *)
(* delays of the retries 1, 2, ... are computed in order.                  *)
(***************************************************************************)
\* the resolved policies calculateRetryDelay is applied to
DelayConfigs ==
  [ maxRetries : {<<3>>},
    delayMs : {<<-3>>, <<0>>, <<3>>, <<1000>>},
    backoffMultiplier : {<<Rat(1, 2)>>, <<Rat(1, 1)>>, <<Rat(3, 2)>>, <<Rat(2, 1)>>},
    maxDelayMs : {<<5>>, <<3000>>, <<30000>>},
    jitter : {<<FALSE>>, <<TRUE>>},
    timeoutMs : {<<45000>>},
    timeoutRetries : {<<2>>} ]

InitDelay ==
  /\ retry = RetryLiteral("undefined")
  /\ retryConfig \in { <<c>> : c \in DelayConfigs }
  /\ pc = "delay"
  /\ attempt = 0
  /\ generalRetryCount = 0
  /\ timeoutRetryCount = 0
  /\ lastError = NoError
  /\ invocations = 0
  /\ sleeps = <<>>
  /\ outcomes = <<>>
  /\ inflight = {}
  /\ history = <<>>
  /\ delays = <<>>
  /\ NoGuard
  /\ NoLayers
  /\ NoLegacy
  /\ NoClassify

\* this.calculateRetryDelay(k, retryConfig) for the next k
DelayStep ==
  /\ pc = "delay"
  /\ Len(delays) < MaxAttemptArg
  /\ \E rnd \in RandomDraws :
       delays' = Append(delays,
                   calculateRetryDelay(Len(delays) + 1, retryConfig[1], rnd))
  /\ UNCHANGED <<layerVars, legacyVars, classifyVars, guardVars, retry, retryConfig, pc, attempt, generalRetryCount,
                 timeoutRetryCount, lastError, invocations, sleeps, outcomes,
                 inflight, history>>

NextDelay == DelayStep

SpecDelay == InitDelay /\ [][NextDelay]_vars

(***************************************************************************)
(* withTimeout on its own: one call withTimeout(operation, timeoutMs,      *)
(* operationName) that the caller awaits.                                  *)
(***************************************************************************)
\* the values the operation fulfils with
ResultValues == {1, 2}

\* mutant: resolve/reject replace the settlement of a settled promise
SettleLastWins(promise, settlement) == settlement

\* resolve(value) / reject(error) of a promise: only a pending promise changes
Settle(promise, settlement) ==
  IF promise.state = "pending" THEN settlement ELSE promise

\* mutant: clearTimeout is not called
clearTimeoutNever(t) == t

\* clearTimeout(timer): a timer that has not fired yet will never fire
clearTimeout(t) == IF t = "armed" THEN "cleared" ELSE t

\* mutant: the operation's promise gets only the then-callback
OperationChainHasNoCatch == FALSE

\* operation().then(...).catch(...): the rejection of the operation's promise
\* reaches the catch callback of the chain
OperationChainHasCatch == TRUE

InitGuard ==
  /\ retry = RetryLiteral("undefined")
  /\ retryConfig \in { <<[DEFAULT_RETRY_OPTIONS EXCEPT !.timeoutMs = <<t>>]>> :
                          t \in TimeoutBounds }
  /\ pc = "guard"
  /\ attempt = 1
  /\ generalRetryCount = 0
  /\ timeoutRetryCount = 0
  /\ lastError = NoError
  /\ invocations = 0
  /\ sleeps = <<>>
  /\ outcomes = <<>>
  /\ inflight = {}
  /\ history = <<>>
  /\ delays = <<>>
  /\ NoGuard
  /\ NoLayers
  /\ NoLegacy
  /\ NoClassify

\* withTimeout is called: the promise is created, the timer is armed and
\* operation() is called and returns its promise; the caller awaits the guard
GuardCall ==
  /\ pc = "guard"
  /\ timeoutMs > 0
  /\ guard' = PendingPromise
  /\ timer' = "armed"
  /\ operation' = PendingPromise
  /\ invocations' = invocations + 1
  /\ pc' = "guardawait"
  /\ UNCHANGED <<layerVars, legacyVars, classifyVars, retry, retryConfig, attempt, generalRetryCount,
                 timeoutRetryCount, lastError, sleeps, outcomes, inflight,
                 history, delays, unhandled>>

\* the operation's promise fulfils: the then-callback clears the timer and
\* resolves the guard
GuardOperationFulfils ==
  /\ operation.state = "pending"
  /\ \E v \in ResultValues :
       /\ operation' = FulfilledPromise(v)
       /\ guard' = Settle(guard, FulfilledPromise(v))
  /\ timer' = clearTimeout(timer)
  /\ UNCHANGED <<layerVars, legacyVars, classifyVars, retry, retryConfig, pc, attempt, generalRetryCount,
                 timeoutRetryCount, lastError, invocations, sleeps, outcomes,
                 inflight, history, delays, unhandled>>

\* the operation's promise rejects: the catch callback of the chain clears the
\* timer and rejects the guard
GuardOperationRejects ==
  /\ operation.state = "pending"
  /\ \E key \in OpMessageKeys :
       /\ operation' = RejectedPromise(OpError(key, attempt))
       /\ IF OperationChainHasCatch
            THEN /\ guard' = Settle(guard, RejectedPromise(OpError(key, attempt)))
                 /\ timer' = clearTimeout(timer)
                 /\ UNCHANGED unhandled
            ELSE /\ unhandled' = unhandled + 1
                 /\ UNCHANGED <<guard, timer>>
  /\ UNCHANGED <<layerVars, legacyVars, classifyVars, retry, retryConfig, pc, attempt, generalRetryCount,
                 timeoutRetryCount, lastError, invocations, sleeps, outcomes,
                 inflight, history, delays>>

\* the timer callback runs after timeoutMs: it rejects the guard with the
\* timeout error; the operation is not touched
GuardTimerFires ==
  /\ timer = "armed"
  /\ timer' = "fired"
  /\ guard' = Settle(guard, RejectedPromise(GuardError(timeoutMs, attempt)))
  /\ UNCHANGED <<layerVars, legacyVars, classifyVars, retry, retryConfig, pc, attempt, generalRetryCount,
                 timeoutRetryCount, lastError, invocations, sleeps, outcomes,
                 inflight, history, delays, operation, unhandled>>

\* `await this.withTimeout(...)` resumes with the settlement of the guard
GuardAwaitResumes ==
  /\ pc = "guardawait"
  /\ guard.state \in {"fulfilled", "rejected"}
  /\ outcomes' = Append(outcomes,
                    IF guard.state = "fulfilled"
                      THEN [kind |-> "return", value |-> guard.value, err |-> NoError]
                      ELSE [kind |-> "throw", value |-> 0, err |-> guard.err])
  /\ pc' = "guarddone"
  /\ UNCHANGED <<layerVars, legacyVars, classifyVars, guardVars, retry, retryConfig, attempt, generalRetryCount,
                 timeoutRetryCount, lastError, invocations, sleeps, inflight,
                 history, delays>>

NextGuard ==
  \/ GuardCall
  \/ GuardOperationFulfils
  \/ GuardOperationRejects
  \/ GuardTimerFires
  \/ GuardAwaitResumes

SpecGuard == InitGuard /\ [][NextGuard]_vars

(***************************************************************************)
(* Classification on its own: a backend error is classified as the catch   *)
(* block does, wrapped by handleError as the providers do, and the wrapped  *)
(* error is classified again.                                              *)
(***************************************************************************)
\* String.prototype.toUpperCase on one character
UpperChar(c) ==
  CASE c = "a" -> "A" [] c = "b" -> "B" [] c = "c" -> "C" [] c = "d" -> "D"
    [] c = "e" -> "E" [] c = "f" -> "F" [] c = "g" -> "G" [] c = "h" -> "H"
    [] c = "i" -> "I" [] c = "j" -> "J" [] c = "k" -> "K" [] c = "l" -> "L"
    [] c = "m" -> "M" [] c = "n" -> "N" [] c = "o" -> "O" [] c = "p" -> "P"
    [] c = "q" -> "Q" [] c = "r" -> "R" [] c = "s" -> "S" [] c = "t" -> "T"
    [] c = "u" -> "U" [] c = "v" -> "V" [] c = "w" -> "W" [] c = "x" -> "X"
    [] c = "y" -> "Y" [] c = "z" -> "Z" [] OTHER -> c

\* String.prototype.toUpperCase
toUpperCase(s) == [i \in 1..Len(s) |-> UpperChar(s[i])]

\* texts without any marker
UnknownTexts == {
  <<"I","n","v","a","l","i","d"," ","p","r","o","m","p","t"," ","f","o","r","m","a","t">>,
  <<"S","o","m","e","t","h","i","n","g"," ","w","e","n","t"," ","w","r","o","n","g">>,
  <<"B","a","d"," ","G","a","t","e","w","a","y">> }

\* the first part of a backend message: one marker or a text without marker
FirstParts ==
  NonRetryableMarkers \cup RetryableStatusMarkers
    \cup RetryableDescriptionMarkers \cup NetworkMarkers \cup UnknownTexts

\* the optional second part of a backend message
SecondParts == {
  <<>>, <<"4","2","9">>, <<"5","0","3">>, <<"4","0","1">>,
  <<"f","o","r","b","i","d","d","e","n">>, <<"t","i","m","e","o","u","t">> }

\* the messages of the backend errors: 'status <first>' or
\* 'status <first>: <second>', as written or in upper case
BackendMessages ==
  { IF upper THEN toUpperCase(m) ELSE m :
      upper \in BOOLEAN,
      m \in { <<"s","t","a","t","u","s"," ">> \o a \o
               (IF b = <<>> THEN <<>> ELSE <<":"," ">> \o b) :
               a \in FirstParts, b \in SecondParts } }

\* the context argument of handleError: absent or 'during IONOS API call'
Contexts == { Undefined, <<<<"d","u","r","i","n","g"," ","I","O","N","O","S"," ","A","P","I"," ","c","a","l","l">>>> }

\* `${context ? `: ${context}` : ''}`
ContextSuffix(ctx) ==
  IF ctx = Undefined THEN <<>> ELSE <<":"," ">> \o ctx[1]

\* new XError(this.providerName, message, error)
TypedError(name, message) == [typed |-> TRUE, name |-> name, message |-> message]

\* mutant: every wrapper keeps the backend message
handleErrorKeepsMessage(error, ctx) ==
  IF error.typed THEN error
  ELSE TypedError("GenerationFailedError",
         <<"G","e","n","e","r","a","t","i","o","n"," ","f","a","i","l","e","d">> \o ContextSuffix(ctx)
           \o <<":"," ">> \o error.message)

\* handleError(error, context)
handleError(error, ctx) ==
  LET errorMessage == toLowerCase(error.message) IN
  IF error.typed THEN error
  ELSE IF includes(errorMessage, <<"4","0","1">>)
          \/ includes(errorMessage, <<"4","0","3">>)
    THEN TypedError("InvalidConfigError",
           <<"A","u","t","h","e","n","t","i","c","a","t","i","o","n"," ","f","a","i","l","e","d">> \o ContextSuffix(ctx))
  ELSE IF includes(errorMessage, <<"4","2","9">>)
    THEN TypedError("QuotaExceededError",
           <<"R","a","t","e"," ","l","i","m","i","t"," ","e","x","c","e","e","d","e","d">> \o ContextSuffix(ctx))
  ELSE IF includes(errorMessage, <<"5","0","3">>)
          \/ includes(errorMessage, <<"5","0","4">>)
          \/ includes(errorMessage, <<"5","0","2">>)
    THEN TypedError("ProviderUnavailableError",
           <<"S","e","r","v","i","c","e"," ","t","e","m","p","o","r","a","r","i","l","y"," ","u","n","a","v","a","i","l","a","b","l","e">> \o ContextSuffix(ctx))
  ELSE IF includes(errorMessage, <<"t","i","m","e","o","u","t">>)
          \/ includes(errorMessage, <<"e","c","o","n","n","r","e","f","u","s","e","d">>)
          \/ includes(errorMessage, <<"e","n","o","t","f","o","u","n","d">>)
    THEN TypedError("NetworkError",
           <<"N","e","t","w","o","r","k"," ","e","r","r","o","r">> \o ContextSuffix(ctx))
  ELSE TypedError("GenerationFailedError",
         <<"G","e","n","e","r","a","t","i","o","n"," ","f","a","i","l","e","d">> \o ContextSuffix(ctx)
           \o <<":"," ">> \o error.message)

\* what the catch block of executeWithRetry computes for an error message
Verdict(message) ==
  LET isTimeout == isTimeoutError(message)
      retryable == isRetryableError(message)
  IN [ isTimeout |-> isTimeout,
       isRetryable |-> retryable,
       class |-> IF isTimeout THEN "Timeout"
                 ELSE IF retryable THEN "Retryable" ELSE "NonRetryable" ]

InitClassify ==
  /\ retry = RetryLiteral("undefined")
  /\ retryConfig = Undefined
  /\ pc = "classify"
  /\ attempt = 0
  /\ generalRetryCount = 0
  /\ timeoutRetryCount = 0
  /\ lastError = NoError
  /\ invocations = 0
  /\ sleeps = <<>>
  /\ outcomes = <<>>
  /\ inflight = {}
  /\ history = <<>>
  /\ delays = <<>>
  /\ NoGuard
  /\ NoLayers
  /\ NoLegacy
  /\ backend \in { [typed |-> ty, name |-> IF ty THEN "TTIError" ELSE "Error",
                     message |-> m] : ty \in BOOLEAN, m \in BackendMessages }
  /\ context \in Contexts
  /\ wrapped = <<>>
  /\ classes = <<>>

\* the catch block classifies the backend error thrown as it is
ClassifyBackend ==
  /\ pc = "classify"
  /\ classes' = Append(classes, Verdict(backend.message))
  /\ pc' = "wrap"
  /\ UNCHANGED <<layerVars, legacyVars, guardVars, retry, retryConfig, attempt, generalRetryCount,
                 timeoutRetryCount, lastError, invocations, sleeps, outcomes,
                 inflight, history, delays, backend, context, wrapped>>

\* the provider's catch: throw this.handleError(error, context)
WrapBackend ==
  /\ pc = "wrap"
  /\ wrapped' = <<handleError(backend, context)>>
  /\ pc' = "classifywrapped"
  /\ UNCHANGED <<layerVars, legacyVars, guardVars, retry, retryConfig, attempt, generalRetryCount,
                 timeoutRetryCount, lastError, invocations, sleeps, outcomes,
                 inflight, history, delays, backend, context, classes>>

\* the catch block classifies the wrapped error
ClassifyWrapped ==
  /\ pc = "classifywrapped"
  /\ classes' = Append(classes, Verdict(wrapped[1].message))
  /\ pc' = "classified"
  /\ UNCHANGED <<layerVars, legacyVars, guardVars, retry, retryConfig, attempt, generalRetryCount,
                 timeoutRetryCount, lastError, invocations, sleeps, outcomes,
                 inflight, history, delays, backend, context, wrapped>>

NextClassify ==
  \/ ClassifyBackend
  \/ WrapBackend
  \/ ClassifyWrapped

SpecClassify == InitClassify /\ [][NextClassify]_vars

(***************************************************************************)
(* Claims about the policy resolver and the delay calculator.              *)
(***************************************************************************)
\* the names of the fields of a resolved policy
PolicyFields == {"maxRetries", "delayMs", "backoffMultiplier", "maxDelayMs",
                 "jitter", "timeoutMs", "timeoutRetries"}

\* the baseline the claims state: maxRetries=3, delayMs=1000,
\* backoffMultiplier=2.0, maxDelayMs=30000, jitter=true, timeoutMs=45000,
\* timeoutRetries=2
StatedBaseline ==
  [ maxRetries |-> <<3>>, delayMs |-> <<1000>>,
    backoffMultiplier |-> <<Rat(2, 1)>>, maxDelayMs |-> <<30000>>,
    jitter |-> <<TRUE>>, timeoutMs |-> <<45000>>, timeoutRetries |-> <<2>> ]

\* the value the claim expects for field f of the policy resolved from r,
\* when every field is defaulted independently
IndependentField(r, f) == IF r[f] # Undefined THEN r[f] ELSE StatedBaseline[f]

\* C9 as stated: null for retry === false, the full baseline for retry absent
\* or true, and for a partial object EVERY field is the supplied value if set
\* and the baseline value otherwise; a non-null result has no undefined field.
C9_Original ==
  pc = "resolved" =>
    /\ (retry.kind = "false" => retryConfig = Undefined)
    /\ (retry.kind \in {"true", "undefined"} => retryConfig = <<StatedBaseline>>)
    /\ (retry.kind = "object" =>
          /\ retryConfig # Undefined
          /\ \A f \in PolicyFields : retryConfig[1][f] = IndependentField(retry, f))
    /\ (retryConfig # Undefined =>
          \A f \in PolicyFields : retryConfig[1][f] # Undefined)

\* C9 amended: as C9, except that backoffMultiplier, when it is not supplied,
\* is 1.0 if the legacy flag incrementalBackoff is supplied and the baseline
\* 2.0 only otherwise.
C9_ResolveRetryConfig ==
  pc = "resolved" =>
    /\ (retry.kind = "false" => retryConfig = Undefined)
    /\ (retry.kind \in {"true", "undefined"} => retryConfig = <<StatedBaseline>>)
    /\ (retry.kind = "object" =>
          /\ retryConfig # Undefined
          /\ \A f \in PolicyFields \ {"backoffMultiplier"} :
               retryConfig[1][f] = IndependentField(retry, f)
          /\ retryConfig[1].backoffMultiplier =
               IF retry.backoffMultiplier # Undefined THEN retry.backoffMultiplier
               ELSE IF retry.incrementalBackoff # Undefined THEN <<Rat(1, 1)>>
               ELSE StatedBaseline.backoffMultiplier)
    /\ (retryConfig # Undefined =>
          \A f \in PolicyFields : retryConfig[1][f] # Undefined)

\* C9 witness: a partial object {maxRetries: 5, jitter: false, timeoutMs: 0}
\* has been resolved, its other fields defaulted
C9_Witness ==
  /\ pc = "resolved"
  /\ retry.kind = "object"
  /\ retry.maxRetries = <<5>> /\ retry.jitter = <<FALSE>> /\ retry.timeoutMs = <<0>>
  /\ retry.delayMs = Undefined /\ retry.timeoutRetries = Undefined
  /\ retry.incrementalBackoff = Undefined /\ retry.backoffMultiplier = Undefined
  /\ retryConfig[1].maxRetries = <<5>>
  /\ retryConfig[1].delayMs = <<1000>>
  /\ retryConfig[1].timeoutMs = <<0>>
  /\ retryConfig[1].timeoutRetries = <<2>>

\* v is Math.round of the rational n/d (d > 0): v - 1/2 <= n/d < v + 1/2
IsRoundOf(v, n, d) == (2 * v - 1) * d <= 2 * n /\ 2 * n < (2 * v + 1) * d

\* v is round(min(delayMs * backoffMultiplier^(k-1), maxDelayMs)) for policy c
IsStatedDelay(v, k, c) ==
  LET n == c.delayMs[1] * Pow(c.backoffMultiplier[1].num, k - 1)
      d == Pow(c.backoffMultiplier[1].den, k - 1)
  IN IF n <= c.maxDelayMs[1] * d
       THEN IsRoundOf(v, n, d)
       ELSE IsRoundOf(v, c.maxDelayMs[1], 1)

\* C10 as stated: with jitter=false the delay of retry k is
\* round(min(delayMs * backoffMultiplier^(k-1), maxDelayMs)), and for EVERY
\* such policy it is non-decreasing in k and never exceeds maxDelayMs.
C10_Original ==
  (pc = "delay" /\ ~retryConfig[1].jitter[1]) =>
    /\ \A k \in 1..Len(delays) :
         /\ IsStatedDelay(delays[k], k, retryConfig[1])
         /\ delays[k] <= retryConfig[1].maxDelayMs[1]
    /\ \A k \in 1..(Len(delays) - 1) : delays[k] <= delays[k + 1]

\* C10 amended: with jitter=false the delay of retry k is
\* round(min(delayMs * backoffMultiplier^(k-1), maxDelayMs)) and never exceeds
\* maxDelayMs; it is non-decreasing in k when delayMs >= 0 and
\* backoffMultiplier >= 1.
C10_RetryDelay ==
  (pc = "delay" /\ ~retryConfig[1].jitter[1]) =>
    /\ \A k \in 1..Len(delays) :
         /\ IsStatedDelay(delays[k], k, retryConfig[1])
         /\ delays[k] <= retryConfig[1].maxDelayMs[1]
    /\ ((retryConfig[1].delayMs[1] >= 0
          /\ retryConfig[1].backoffMultiplier[1].num
               >= retryConfig[1].backoffMultiplier[1].den) =>
            \A k \in 1..(Len(delays) - 1) : delays[k] <= delays[k + 1])

\* C10 witness: delayMs=1000, backoffMultiplier=2, maxDelayMs=3000, no jitter:
\* the delays 1000, 2000, 3000 (capped), 3000 (capped) have been computed
C10_Witness ==
  /\ pc = "delay"
  /\ ~retryConfig[1].jitter[1]
  /\ retryConfig[1].backoffMultiplier = <<Rat(2, 1)>>
  /\ delays = <<1000, 2000, 3000, 3000>>

\* the numerator of min(delayMs * backoffMultiplier^(k-1), maxDelayMs) over
\* the denominator StatedDen(k, c)
StatedNum(k, c) ==
  LET n == c.delayMs[1] * Pow(c.backoffMultiplier[1].num, k - 1)
      d == Pow(c.backoffMultiplier[1].den, k - 1)
  IN IF n <= c.maxDelayMs[1] * d THEN n ELSE c.maxDelayMs[1]

StatedDen(k, c) ==
  LET n == c.delayMs[1] * Pow(c.backoffMultiplier[1].num, k - 1)
      d == Pow(c.backoffMultiplier[1].den, k - 1)
  IN IF n <= c.maxDelayMs[1] * d THEN d ELSE 1

Classify(error) ==
  IF ErrorIsTimeout(error) THEN "Timeout"
  ELSE IF ErrorIsRetryable(error) THEN "Retryable"
  ELSE "NonRetryable"

\* the executor runs its attempt loop (retries are not disabled)
RetryMode == pc \in {"loop", "await", "sleep", "done"} /\ retryConfig # Undefined

\* the resolved policy has non-negative maxRetries and timeoutRetries
BudgetsNonNegative == maxGeneralRetries >= 0 /\ maxTimeoutRetries >= 0

\* attempt i of the history failed with an error of class cls
FailedAs(i, cls) ==
  history[i].res = "rejected" /\ Classify(history[i].err) = cls

\* the number of failures of class cls among the first n attempts
NumFailed(n, cls) == Cardinality({i \in 1..n : FailedAs(i, cls)})

\* the only thing the caller has received is error e
ThrewOnly(e) == outcomes = <<[kind |-> "throw", value |-> 0, err |-> e]>>

\* the only thing the caller has received is the value of attempt i
ReturnedOnly(i) == outcomes = <<[kind |-> "return", value |-> i, err |-> NoError]>>

\* C1: when an attempt fails with an error classified NonRetryable, the
\* executor rethrows that same error at once: it is the last attempt, nothing
\* was slept after it and neither retry counter was incremented for it; a
\* first attempt failing with a 401-style message means exactly one invocation.
C1_NonRetryableFailsFast ==
  /\ \A i \in 1..Len(history) :
       FailedAs(i, "NonRetryable") =>
         /\ i = Len(history)
         /\ pc = "done"
         /\ ThrewOnly(history[i].err)
         /\ invocations = i
         /\ Len(sleeps) = i - 1
         /\ generalRetryCount = NumFailed(i - 1, "Retryable")
         /\ timeoutRetryCount = NumFailed(i - 1, "Timeout")
  /\ (Len(history) >= 1 /\ history[1].res = "rejected"
        /\ history[1].err.msg = "401") =>
       /\ pc = "done" /\ invocations = 1 /\ sleeps = <<>>
       /\ ThrewOnly(history[1].err)

\* C1 witness: after one retried 429 the second attempt failed NonRetryable and
\* was rethrown with the general counter still at 1
C1_Witness ==
  /\ RetryMode
  /\ Len(history) = 2
  /\ FailedAs(1, "Retryable")
  /\ FailedAs(2, "NonRetryable")
  /\ pc = "done"
  /\ generalRetryCount = 1
  /\ invocations = 2

\* C2: with maxRetries = N >= 0 and only Retryable failures the operation is
\* invoked at most N+1 times; when the executor rethrows, N+1 attempts have
\* failed, it was invoked exactly N+1 times and slept exactly N times.
C2_RetryableBudget ==
  (RetryMode /\ BudgetsNonNegative
     /\ \A i \in 1..Len(history) :
          history[i].res = "rejected" => FailedAs(i, "Retryable")) =>
    /\ invocations <= maxGeneralRetries + 1
    /\ (NumFailed(Len(history), "Retryable") = maxGeneralRetries + 1 =>
          /\ pc = "done"
          /\ ThrewOnly(history[Len(history)].err))
    /\ ((pc = "done" /\ outcomes[1].kind = "throw") =>
          /\ NumFailed(Len(history), "Retryable") = maxGeneralRetries + 1
          /\ invocations = maxGeneralRetries + 1
          /\ Len(sleeps) = maxGeneralRetries)

\* C2 witness: maxRetries=2, three Retryable failures, rethrown after three
\* invocations and two sleeps
C2_Witness ==
  /\ RetryMode
  /\ maxGeneralRetries = 2
  /\ pc = "done"
  /\ Len(history) = 3
  /\ \A i \in 1..3 : FailedAs(i, "Retryable")
  /\ invocations = 3
  /\ Len(sleeps) = 2
  /\ outcomes[1].kind = "throw"

\* C3: the budgets never interact: timeoutRetryCount counts exactly the Timeout
\* failures and generalRetryCount exactly the Retryable (or Quota) failures;
\* with non-negative budgets the executor gives up on a Timeout only when the
\* timeouts alone exceed timeoutRetries, and on a Retryable failure only when
\* the general failures alone exceed maxRetries.
C3_BudgetsIndependent ==
  RetryMode =>
    /\ timeoutRetryCount = NumFailed(Len(history), "Timeout")
    /\ generalRetryCount = NumFailed(Len(history), "Retryable")
    /\ (BudgetsNonNegative =>
          /\ ((pc = "done" /\ outcomes[1].kind = "throw") =>
                /\ (FailedAs(Len(history), "Timeout") =>
                      NumFailed(Len(history), "Timeout") > maxTimeoutRetries)
                /\ (FailedAs(Len(history), "Retryable") =>
                      NumFailed(Len(history), "Retryable") > maxGeneralRetries))
          /\ (pc # "done" =>
                /\ NumFailed(Len(history), "Timeout") <= maxTimeoutRetries
                /\ NumFailed(Len(history), "Retryable") <= maxGeneralRetries))

\* C3 witness: with maxRetries=1 the executor gave up on the second Retryable
\* failure although two timeouts had been retried in between
C3_Witness ==
  /\ RetryMode
  /\ maxGeneralRetries = 1
  /\ maxTimeoutRetries = 2
  /\ pc = "done"
  /\ Len(history) = 4
  /\ FailedAs(1, "Retryable") /\ FailedAs(2, "Timeout")
  /\ FailedAs(3, "Timeout") /\ FailedAs(4, "Retryable")
  /\ timeoutRetryCount = 2
  /\ generalRetryCount = 2
  /\ outcomes[1].kind = "throw"

\* C4: when every failure so far was a Timeout or a Retryable one, with at
\* most timeoutRetries Timeouts and at most maxRetries Retryable failures,
\* the executor has not given up: if it has ended, it ended by returning the
\* value of the attempt that succeeded after them.
C4_InterleavingsSucceed ==
  (RetryMode /\ BudgetsNonNegative
     /\ \A i \in 1..Len(history) : ~FailedAs(i, "NonRetryable")
     /\ NumFailed(Len(history), "Timeout") <= maxTimeoutRetries
     /\ NumFailed(Len(history), "Retryable") <= maxGeneralRetries) =>
    /\ (pc = "done" =>
          /\ history # <<>>
          /\ history[Len(history)].res = "fulfilled"
          /\ ReturnedOnly(Len(history))
          /\ invocations = Len(history))
    /\ (pc = "loop" => attempt = Len(history) + 1)
    /\ invocations <= 1 + Len(history)

\* C4 witness: (Timeout, Retryable, Timeout, Retryable, success) with
\* timeoutRetries=2 and maxRetries=2 returned the value of the 5th attempt
C4_Witness ==
  /\ RetryMode
  /\ maxGeneralRetries = 2
  /\ maxTimeoutRetries = 2
  /\ Len(history) = 5
  /\ FailedAs(1, "Timeout") /\ FailedAs(2, "Retryable")
  /\ FailedAs(3, "Timeout") /\ FailedAs(4, "Retryable")
  /\ history[5].res = "fulfilled"
  /\ pc = "done"
  /\ ReturnedOnly(5)
  /\ invocations = 5

\* C5: with non-negative maxRetries and timeoutRetries the operation is
\* invoked at most 1 + maxRetries + timeoutRetries times, and, every attempt
\* settling or timing out and every sleep completing, the executor eventually
\* returns or throws.
C5_BoundedAndTerminates ==
  /\ []((RetryMode /\ BudgetsNonNegative) =>
          invocations <= 1 + maxGeneralRetries + maxTimeoutRetries)
  /\ []((RetryMode /\ BudgetsNonNegative) => <>(pc = "done"))

\* C5 witness: maxRetries=2 and timeoutRetries=2 were both used up: the
\* executor ended after 1 + 2 + 2 invocations
C5_Witness ==
  /\ RetryMode
  /\ maxGeneralRetries = 2
  /\ maxTimeoutRetries = 2
  /\ invocations = 5
  /\ NumFailed(Len(history), "Retryable") = 2
  /\ NumFailed(Len(history), "Timeout") = 2
  /\ pc = "done"

\* C6: when a retry budget is exhausted, the error thrown is the error of the
\* last failed attempt, not an earlier one and not a synthetic summary.
C6_LastErrorRethrown ==
  (RetryMode /\ pc = "done" /\ outcomes[1].kind = "throw" /\ history # <<>>
     /\ ~FailedAs(Len(history), "NonRetryable")) =>
    /\ history[Len(history)].res = "rejected"
    /\ ThrewOnly(history[Len(history)].err)
    /\ outcomes[1].err.at = Len(history)

\* C6 witness: maxRetries=1, a 429 then a 503: the 503 of attempt 2 is thrown
C6_Witness ==
  /\ RetryMode
  /\ maxGeneralRetries = 1
  /\ pc = "done"
  /\ Len(history) = 2
  /\ history[1].err.msg = "429"
  /\ history[2].err.msg = "503"
  /\ outcomes[1].kind = "throw"
  /\ outcomes[1].err = OpError("503", 2)

\* C7: the caller receives at most one outcome, and exactly one once the
\* executor has ended; a fulfilled attempt is the last attempt and its value
\* is what the caller received: nothing was invoked or slept after it.
C7_SingleOutcome ==
  /\ Len(outcomes) <= 1
  /\ (pc = "done" <=> Len(outcomes) = 1)
  /\ \A i \in 1..Len(history) :
       history[i].res = "fulfilled" =>
         /\ i = Len(history)
         /\ pc = "done"
         /\ ReturnedOnly(i)
         /\ invocations = i
         /\ Len(sleeps) = i - 1

\* C7 witness: two failures were retried and the third attempt's value was
\* returned
C7_Witness ==
  /\ RetryMode
  /\ pc = "done"
  /\ Len(history) = 3
  /\ history[1].res = "rejected" /\ history[2].res = "rejected"
  /\ history[3].res = "fulfilled"
  /\ ReturnedOnly(3)
  /\ Len(sleeps) = 2

\* C8: with retry === false the operation runs exactly once; its value or its
\* error, of whatever class, reaches the caller unchanged, nothing is slept and
\* no retry is counted.
C8_RetryDisabled ==
  (retry.kind = "false" /\ pc # "call") =>
    /\ retryConfig = Undefined
    /\ invocations = 1
    /\ sleeps = <<>>
    /\ generalRetryCount = 0 /\ timeoutRetryCount = 0
    /\ Len(history) <= 1
    /\ (pc = "done" <=> Len(history) = 1)
    /\ (pc = "done" =>
          IF history[1].res = "rejected"
            THEN ThrewOnly(history[1].err)
            ELSE ReturnedOnly(1))

\* C8 witness: retry === false and the only attempt failed with
\* '429 Rate limit', which was thrown after one invocation
C8_Witness ==
  /\ retry.kind = "false"
  /\ pc = "done"
  /\ invocations = 1
  /\ history = <<[res |-> "rejected", err |-> OpError("429", 1)]>>
  /\ ThrewOnly(OpError("429", 1))
  /\ Classify(OpError("429", 1)) = "Retryable"

\* C12: the sleep before a general retry is the backoff delay of retry number
\* k, where k counts the Retryable failures so far and not the attempts:
\* earlier Timeout failures do not enlarge it (without jitter it is
\* round(min(delayMs * backoffMultiplier^(k-1), maxDelayMs)), with jitter at
\* most that). With jitter=false, delayMs=1000, backoffMultiplier=2,
\* maxRetries=2 and quota failures on attempts 1 and 2 followed by success the
\* executor sleeps 1000 then 2000 and returns the 3rd attempt's value after 3
\* invocations.
C12_BackoffFromGeneralCount ==
  RetryMode =>
    /\ \A i \in 1..Len(sleeps) :
         FailedAs(i, "Retryable") =>
           LET k == NumFailed(i, "Retryable") IN
           IF retryConfig[1].jitter[1]
             THEN /\ 0 <= sleeps[i]
                  /\ 2 * sleeps[i] * StatedDen(k, retryConfig[1])
                       <= 2 * StatedNum(k, retryConfig[1])
                            + StatedDen(k, retryConfig[1])
             ELSE IsStatedDelay(sleeps[i], k, retryConfig[1])
    /\ (/\ ~retryConfig[1].jitter[1]
        /\ retryConfig[1].delayMs = <<1000>>
        /\ retryConfig[1].backoffMultiplier = <<Rat(2, 1)>>
        /\ maxGeneralRetries = 2
        /\ Len(history) = 3
        /\ history[1].res = "rejected" /\ history[1].err.msg = "429"
        /\ history[2].res = "rejected" /\ history[2].err.msg = "429"
        /\ history[3].res = "fulfilled") =>
          /\ sleeps = <<1000, 2000>>
          /\ ReturnedOnly(3)
          /\ invocations = 3

\* C12 witness: with delayMs=1000 and backoffMultiplier=2 the attempts failed
\* Timeout, 429, Timeout, 429: the two backoff sleeps are 1000 and 2000 although
\* they precede attempts 3 and 5
C12_Witness ==
  /\ RetryMode
  /\ ~retryConfig[1].jitter[1]
  /\ retryConfig[1].delayMs = <<1000>>
  /\ retryConfig[1].backoffMultiplier = <<Rat(2, 1)>>
  /\ Len(history) >= 4
  /\ FailedAs(1, "Timeout") /\ FailedAs(3, "Timeout")
  /\ history[2].res = "rejected" /\ history[2].err.msg = "429"
  /\ history[4].res = "rejected" /\ history[4].err.msg = "429"
  /\ sleeps = <<2000, 1000, 2000, 2000>>

\* every attempt so far was ended by the timer of withTimeout: the operation
\* has never settled while it was awaited
NeverSettles ==
  \A i \in 1..Len(history) :
    history[i].res = "rejected" /\ history[i].err.src = "guard"

\* C13: the sleep before a retry caused by a Timeout failure is exactly 2000,
\* whatever delayMs, backoffMultiplier, maxDelayMs and jitter are and however
\* many timeouts came before. With non-negative budgets, an operation that
\* never settles is invoked at most timeoutRetries + 1 times, and the executor
\* ends after exactly timeoutRetries + 1 invocations and timeoutRetries sleeps
\* of 2000 by throwing the timeout error of the last attempt.
C13_TimeoutFixedDelay ==
  RetryMode =>
    /\ \A i \in 1..Len(sleeps) : FailedAs(i, "Timeout") => sleeps[i] = 2000
    /\ (BudgetsNonNegative /\ NeverSettles) =>
         /\ invocations <= maxTimeoutRetries + 1
         /\ Len(sleeps) <= maxTimeoutRetries
         /\ pc = "done" =>
              /\ invocations = maxTimeoutRetries + 1
              /\ sleeps = [i \in 1..maxTimeoutRetries |-> 2000]
              /\ ThrewOnly(GuardError(timeoutMs, invocations))
              /\ isTimeoutError(ErrorMessage(outcomes[1].err))

\* C13 witness: timeoutMs=50, timeoutRetries=2, backoff delayMs=1000 with
\* backoffMultiplier=2: three attempts timed out, the executor slept 2000 twice
\* and threw the timeout error of attempt 3
C13_Witness ==
  /\ RetryMode
  /\ pc = "done"
  /\ timeoutMs = 50
  /\ maxTimeoutRetries = 2
  /\ maxGeneralRetries = 2
  /\ retryConfig[1].delayMs = <<1000>>
  /\ retryConfig[1].backoffMultiplier = <<Rat(2, 1)>>
  /\ NeverSettles
  /\ invocations = 3
  /\ sleeps = <<2000, 2000>>
  /\ ThrewOnly(GuardError(50, 3))

(***************************************************************************)
(* Claims about withTimeout.                                               *)
(***************************************************************************)
\* what `await` delivers for a settled promise
Delivery(promise) ==
  IF promise.state = "fulfilled"
    THEN [kind |-> "return", value |-> promise.value, err |-> NoError]
    ELSE [kind |-> "throw", value |-> 0, err |-> promise.err]

\* C14: when the wrapped operation fulfils or rejects before the timer has
\* fired, the guard is settled with exactly the operation's value or error,
\* the timer is cleared, so that no timeout error is produced afterwards, and
\* the awaiting caller receives that value or error and nothing else.
C14_GuardPassThrough ==
  (pc \in {"guardawait", "guarddone"}
     /\ operation.state \in {"fulfilled", "rejected"}
     /\ timer # "fired") =>
    /\ guard = operation
    /\ guard.err.src # "guard"
    /\ timer = "cleared"
    /\ outcomes \in {<<>>, <<Delivery(operation)>>}
    /\ (pc = "guarddone" => outcomes = <<Delivery(operation)>>)

\* C14 witness: the operation rejected with the 429 error before the deadline
\* and the caller of the guard caught that error
C14_Witness ==
  /\ pc = "guarddone"
  /\ timer = "cleared"
  /\ operation = RejectedPromise(OpError("429", 1))
  /\ guard = RejectedPromise(OpError("429", 1))
  /\ outcomes = <<[kind |-> "throw", value |-> 0, err |-> OpError("429", 1)]>>

\* C15: when the timer fires before the operation has settled, the guard
\* rejects with the timeout error, whose message names the operation and the
\* bound, and the operation is left running; when the operation fulfils or
\* rejects later the guard's outcome stays that rejection, the caller receives
\* it once and nothing else, and no rejection is left unhandled.
C15_GuardAfterDeadline ==
  /\ [](timer = "fired" =>
          /\ guard = RejectedPromise(GuardError(timeoutMs, attempt))
          /\ isTimeoutError(ErrorMessage(guard.err))
          /\ includes(ErrorMessage(guard.err), OperationName)
          /\ includes(ErrorMessage(guard.err),
                      NumberToString(timeoutMs) \o <<"m","s">>)
          /\ outcomes \in {<<>>, <<Delivery(guard)>>}
          /\ (pc = "guarddone" => outcomes = <<Delivery(guard)>>)
          /\ unhandled = 0)
  /\ [][timer' = "fired" /\ timer # "fired" =>
          operation.state = "pending" /\ operation' = operation]_vars

\* C15 witness: the deadline passed, the caller caught the timeout error, and
\* afterwards the abandoned operation rejected with the 503 error
C15_Witness ==
  /\ pc = "guarddone"
  /\ timer = "fired"
  /\ operation = RejectedPromise(OpError("503", 1))
  /\ guard = RejectedPromise(GuardError(timeoutMs, 1))
  /\ outcomes = <<[kind |-> "throw", value |-> 0, err |-> GuardError(timeoutMs, 1)]>>
  /\ unhandled = 0

(***************************************************************************)
(* Claims about the classification of errors.                              *)
(***************************************************************************)
\* attempt i of the history was ended by the timeout error of withTimeout
FailedByGuard(i) == history[i].res = "rejected" /\ history[i].err.src = "guard"

\* every message withTimeout can build here is a timeout for isTimeoutError
GuardMessagesAreTimeouts ==
  \A name \in GuardOperationNames : \A b \in TimeoutBounds :
    isTimeoutError(TimeoutMessage(name, b))

\* some of these messages contain a NonRetryable marker and all contain the
\* Retryable marker 'timeout'
GuardMessagesHitMessageRules ==
  /\ \A name \in GuardOperationNames : \A b \in TimeoutBounds :
       includes(toLowerCase(TimeoutMessage(name, b)), <<"t","i","m","e","o","u","t">>)
  /\ \A name \in GuardOperationNames : \A b \in {400, 40000} :
       /\ includes(TimeoutMessage(name, b), <<"4","0","0">>)
       /\ ~isRetryableError(TimeoutMessage(name, b))
  /\ \E name \in GuardOperationNames : \A b \in TimeoutBounds :
       /\ includes(TimeoutMessage(name, b), <<"4","0","1">>)
       /\ ~isRetryableError(TimeoutMessage(name, b))

\* C16: an error made by withTimeout is always classified Timeout, whatever
\* its message contains (a NonRetryable marker such as '400' in the bound or
\* '401' in the operation name, or the Retryable marker 'timeout'): it is
\* retried after the fixed timeout sleep, it never changes generalRetryCount,
\* it increments timeoutRetryCount, and it is thrown only when the timeout
\* budget is used up.
C16_GuardErrorsAreTimeouts ==
  RetryMode =>
    /\ GuardMessagesAreTimeouts
    /\ \A i \in 1..Len(history) :
         FailedByGuard(i) =>
           /\ FailedAs(i, "Timeout")
           /\ (i <= Len(sleeps) => sleeps[i] = TimeoutRetryDelayMs)
           /\ (i > Len(sleeps) =>
                 i = Len(history) /\ pc = "done"
                   /\ timeoutRetryCount > maxTimeoutRetries)
    /\ generalRetryCount =
         Cardinality({i \in 1..Len(history) :
                        FailedAs(i, "Retryable") /\ ~FailedByGuard(i)})
    /\ timeoutRetryCount >=
         Cardinality({i \in 1..Len(history) : FailedByGuard(i)})

\* C16 witness: with timeoutMs=400 the first attempt timed out; its message
\* 'timeout: Imagen API call did not complete within 400ms' contains '400',
\* which the message rules treat as NonRetryable, and yet it was retried
\* after 2000 on the timeout budget alone
C16_Witness ==
  /\ RetryMode
  /\ GuardMessagesHitMessageRules
  /\ timeoutMs = 400
  /\ Len(history) >= 1
  /\ history[1] = [res |-> "rejected", err |-> GuardError(400, 1)]
  /\ sleeps = <<2000>>
  /\ timeoutRetryCount = 1
  /\ generalRetryCount = 0
  /\ pc = "await"

\* the NonRetryable markers as stated: 400, 401, 403, authentication,
\* unauthorized, forbidden
StatedNonRetryable == {
  <<"4","0","0">>, <<"4","0","1">>, <<"4","0","3">>,
  <<"a","u","t","h","e","n","t","i","c","a","t","i","o","n">>,
  <<"u","n","a","u","t","h","o","r","i","z","e","d">>,
  <<"f","o","r","b","i","d","d","e","n">> }

\* the quota markers as stated
StatedQuota == {
  <<"4","2","9">>,
  <<"r","e","s","o","u","r","c","e"," ","e","x","h","a","u","s","t","e","d">>,
  <<"q","u","o","t","a"," ","e","x","c","e","e","d","e","d">>,
  <<"t","o","o"," ","m","a","n","y"," ","r","e","q","u","e","s","t","s">>,
  <<"r","a","t","e"," ","l","i","m","i","t">> }

\* the retryable status and network markers as stated
StatedRetryable == {
  <<"4","0","8">>, <<"5","0","0">>, <<"5","0","2">>, <<"5","0","3">>,
  <<"5","0","4">>, <<"t","i","m","e","o","u","t">>,
  <<"e","t","i","m","e","d","o","u","t">>,
  <<"e","s","o","c","k","e","t","t","i","m","e","d","o","u","t">>,
  <<"e","c","o","n","n","r","e","s","e","t">>,
  <<"e","c","o","n","n","r","e","f","u","s","e","d">>,
  <<"e","n","o","t","f","o","u","n","d">>,
  <<"e","c","o","n","n","a","b","o","r","t","e","d">>,
  <<"e","p","i","p","e">>,
  <<"e","h","o","s","t","u","n","r","e","a","c","h">>,
  <<"e","n","e","t","u","n","r","e","a","c","h">>,
  <<"s","o","c","k","e","t"," ","h","a","n","g"," ","u","p">> }

\* the lower-cased message contains one of the markers
HasMarker(message, markers) ==
  \E k \in markers : includes(toLowerCase(message), k)

\* C17: the message rules are first-match-wins on the lower-cased message: a
\* message with a NonRetryable marker is not retryable even if it also has a
\* quota or retryable marker; a message with no NonRetryable marker and at
\* least one quota, retryable or network marker is retryable; a message with
\* no known marker is not retryable; and a message that is not a timeout is
\* retried by the catch block exactly when it is retryable.
C17_FirstMatchWins ==
  (pc \in {"wrap", "classifywrapped", "classified"}) =>
    LET v == classes[1]
        nonRetryable == HasMarker(backend.message, StatedNonRetryable)
        transient == HasMarker(backend.message, StatedQuota \cup StatedRetryable)
    IN /\ (nonRetryable => ~v.isRetryable)
       /\ ((~nonRetryable /\ transient) => v.isRetryable)
       /\ ((~nonRetryable /\ ~transient) => ~v.isRetryable)
       /\ (~v.isTimeout =>
             v.class = IF v.isRetryable THEN "Retryable" ELSE "NonRetryable")

\* C17 witness: 'STATUS FORBIDDEN: 429' has the NonRetryable marker
\* 'forbidden' in upper case and the quota marker '429': it is not retried
C17_Witness ==
  /\ pc = "wrap"
  /\ backend.message = toUpperCase(<<"s","t","a","t","u","s"," ","f","o","r","b","i","d","d","e","n",":"," ","4","2","9">>)
  /\ HasMarker(backend.message, StatedNonRetryable)
  /\ HasMarker(backend.message, StatedQuota)
  /\ classes = <<[isTimeout |-> FALSE, isRetryable |-> FALSE,
                  class |-> "NonRetryable"]>>

\* C18 as stated: handleError keeps the backend message text in the message
\* of the typed error, so the wrapped error gets the same verdict from the
\* catch block as the backend error: Retryable stays Retryable and
\* NonRetryable stays NonRetryable.
C18_WrappingPreservesClass ==
  pc = "classified" =>
    /\ includes(wrapped[1].message, backend.message)
    /\ classes[2].class = classes[1].class

\* C18 failing case: the backend error 'status 503' is Retryable; handleError
\* turns it into ProviderUnavailableError 'Service temporarily unavailable:
\* during IONOS API call', which has no marker and is NonRetryable
C18_Witness ==
  /\ pc = "classified"
  /\ ~backend.typed
  /\ backend.message = <<"s","t","a","t","u","s"," ","5","0","3">>
  /\ context = <<<<"d","u","r","i","n","g"," ","I","O","N","O","S"," ","A","P","I"," ","c","a","l","l">>>>
  /\ wrapped[1].name = "ProviderUnavailableError"
  /\ wrapped[1].message = <<"S","e","r","v","i","c","e"," ","t","e","m","p","o","r","a","r","i","l","y"," ","u","n","a","v","a","i","l","a","b","l","e",":"," ","d","u","r","i","n","g"," ","I","O","N","O","S"," ","A","P","I"," ","c","a","l","l">>
  /\ classes[1].class = "Retryable"
  /\ classes[2].class = "NonRetryable"

(***************************************************************************)
(* Claims about the legacy option incrementalBackoff.                      *)
(***************************************************************************)
\* the delay of retry k under policy c with the jitter switched off
UnjitteredDelay(k, c) == calculateRetryDelay(k, [c EXCEPT !.jitter = <<FALSE>>], 0)

\* the request carries the legacy flag and no backoffMultiplier
LegacyFlagOnly ==
  /\ retry.kind = "object"
  /\ retry.incrementalBackoff # Undefined
  /\ retry.backoffMultiplier = Undefined

\* C19 as stated: with the legacy flag (true or false) and no explicit
\* backoffMultiplier the resolved backoffMultiplier is 1.0 and the un-jittered
\* delay of every retry is delayMs; an explicit backoffMultiplier is kept and
\* the flag then changes nothing.
C19_Original ==
  (pc = "resolved" /\ retry.kind = "object") =>
    /\ LegacyFlagOnly =>
         /\ retryConfig[1].backoffMultiplier = <<Rat(1, 1)>>
         /\ \A k \in 1..MaxAttemptArg :
              UnjitteredDelay(k, retryConfig[1]) = retryConfig[1].delayMs[1]
    /\ retry.backoffMultiplier # Undefined =>
         /\ retryConfig[1].backoffMultiplier = retry.backoffMultiplier
         /\ retryConfig =
              resolveRetryConfig([retry EXCEPT !.incrementalBackoff = Undefined])

\* C19 amended: with the legacy flag (true or false) and no explicit
\* backoffMultiplier the resolved backoffMultiplier is 1.0 and the un-jittered
\* delay of every retry is the constant min(delayMs, maxDelayMs), which is
\* delayMs when delayMs <= maxDelayMs; an explicit backoffMultiplier is kept
\* and the flag then changes nothing.
C19_LegacyFlag ==
  (pc = "resolved" /\ retry.kind = "object") =>
    /\ LegacyFlagOnly =>
         /\ retryConfig[1].backoffMultiplier = <<Rat(1, 1)>>
         /\ \A k \in 1..MaxAttemptArg :
              UnjitteredDelay(k, retryConfig[1]) =
                IF retryConfig[1].delayMs[1] <= retryConfig[1].maxDelayMs[1]
                  THEN retryConfig[1].delayMs[1]
                  ELSE retryConfig[1].maxDelayMs[1]
    /\ retry.backoffMultiplier # Undefined =>
         /\ retryConfig[1].backoffMultiplier = retry.backoffMultiplier
         /\ retryConfig =
              resolveRetryConfig([retry EXCEPT !.incrementalBackoff = Undefined])

\* C19 witness: retry = {delayMs: 2000, incrementalBackoff: true} resolved to
\* backoffMultiplier 1.0, so that every retry waits 2000
C19_Witness ==
  /\ pc = "resolved"
  /\ LegacyFlagOnly
  /\ retry.incrementalBackoff = <<TRUE>>
  /\ retry.delayMs = <<2000>>
  /\ retryConfig[1].backoffMultiplier = <<Rat(1, 1)>>
  /\ \A k \in 1..MaxAttemptArg : UnjitteredDelay(k, retryConfig[1]) = 2000

\* C20 as stated: for a request with legacy options only, against an
\* operation that meets rate-limit failures only, the current executor ends
\* with the same number of invocations and the same sequence of sleeps as the
\* legacy executor: delayMs every time when incrementalBackoff is false or
\* absent, and delayMs*1, delayMs*2, delayMs*3, ... when it is true.
C20_LegacyPreserved ==
  (retry.kind = "object" /\ pc = "done" /\ legacyPc = "done") =>
    /\ invocations = legacyInvocations
    /\ sleeps = legacySleeps
    /\ legacySleeps =
         [k \in 1..Len(legacySleeps) |->
            IF legacyConfig[1].incrementalBackoff[1]
              THEN legacyConfig[1].delayMs[1] * k
              ELSE legacyConfig[1].delayMs[1]]

\* C20 failing case: retry = {maxRetries: 2, delayMs: 1000,
\* incrementalBackoff: true} and two 429 failures before the success: the
\* legacy executor slept 1000 then 2000, the current one at most 1000 each time
C20_Witness ==
  /\ pc = "done"
  /\ legacyPc = "done"
  /\ retry.kind = "object"
  /\ retry.maxRetries = <<2>>
  /\ retry.incrementalBackoff = <<TRUE>>
  /\ failures = 2
  /\ invocations = 3
  /\ legacyInvocations = 3
  /\ legacySleeps = <<1000, 2000>>
  /\ sleeps = <<1000, 1000>>
  /\ ReturnedOnly(3)

(***************************************************************************)
(* GoogleCloudTTIProvider: the effective region, lastUsedRegion and the    *)
(* lazily loaded SDK clients, under concurrent generate() calls on one     *)
(* instance.                                                               *)
(***************************************************************************)
\* the number of generate() calls on the instance
MaxRequests == 2

\* the number of times executeWithRetry calls the operation of one request
MaxOperationCalls == 2

\* the executor variables while no executor runs
ExecutorIdle ==
  /\ retry = RetryLiteral("undefined")
  /\ retryConfig = Undefined
  /\ pc = "idle"
  /\ attempt = 0
  /\ generalRetryCount = 0
  /\ timeoutRetryCount = 0
  /\ lastError = NoError
  /\ invocations = 0
  /\ sleeps = <<>>
  /\ outcomes = <<>>
  /\ inflight = {}
  /\ history = <<>>
  /\ delays = <<>>

executorVars == <<retry, retryConfig, pc, attempt, generalRetryCount,
                  timeoutRetryCount, lastError, invocations, sleeps,
                  outcomes, inflight, history, delays>>

\* the values of config.region: the default, one where gemini-flash-image is
\* not available, and one outside the EU
ConfigRegions == {"europe-west4", "europe-west3", "us-central1"}

ProviderModels == {"imagen-3", "gemini-flash-image"}

\* GOOGLE_CLOUD_MODELS[..].availableRegions
availableRegions(modelId) ==
  IF modelId = "imagen-3"
    THEN <<"europe-west1", "europe-west2", "europe-west3", "europe-west4",
           "europe-west9", "us-central1", "us-east4">>
    ELSE <<"europe-west1", "europe-west4", "europe-north1", "us-central1",
           "us-east4">>

isEURegion(region) ==
  region \in {"europe-west1", "europe-west2", "europe-west3", "europe-west4",
              "europe-west9", "europe-north1", "europe-central2"}

\* getEffectiveRegion: config.region if the model is available there, else
\* the first EU region of the model, else its first region
getEffectiveRegion(modelId) ==
  LET available == availableRegions(modelId)
      euAlternatives == SelectSeq(available, isEURegion)
  IN IF \E k \in 1..Len(available) : available[k] = configRegion
       THEN configRegion
     ELSE IF Len(euAlternatives) > 0 THEN euAlternatives[1]
     ELSE available[1]

\* the client field a model's implementation uses
ClientOf(modelId) ==
  IF modelId = "imagen-3" THEN aiplatformClient ELSE genaiClient

\* generateWithImagen / generateWithGemini up to their first suspension:
\* lastUsedRegion is written, then getAiplatformClient / getGenaiClient tests
\* its field and either suspends on the import (field null), or suspends on
\* the second import (aiplatform, field set), or returns (genai, field set)
OperationStarts(i, modelId, region) ==
  /\ lastUsedRegion' = <<region>>
  /\ IF ClientOf(modelId) = <<>> THEN requests'[i].pc = "import"
     ELSE IF modelId = "imagen-3" THEN requests'[i].pc = "cached"
     ELSE requests'[i].pc = "client"

\* generate(request): the model is known, the effective region is selected
\* and bound into the operation, executeWithRetry calls the operation
Generate ==
  /\ Len(requests) < MaxRequests
  /\ \E modelId \in ProviderModels :
       LET i == Len(requests) + 1
           region == getEffectiveRegion(modelId)
       IN /\ \E at \in {"import", "cached", "client"} :
               requests' = Append(requests,
                 [model |-> modelId, region |-> region, pc |-> at, calls |-> 1,
                  held |-> <<>>, served |-> <<>>, response |-> <<>>])
          /\ OperationStarts(i, modelId, region)
  /\ UNCHANGED <<configRegion, genaiClient, aiplatformClient, constructed>>
  /\ UNCHANGED <<outerVars, executorVars, rotationVars, dryVars, legacyVars,
                 classifyVars, guardVars>>

\* the import of a get...Client call that found its field null resolves: the
\* client is constructed (aiplatform: for config.region, genai: for the
\* region passed in) and stored in the field; getAiplatformClient returns it
Construct(i) ==
  /\ requests[i].pc = "import"
  /\ LET modelId == requests[i].model
         client == [id |-> Len(constructed) + 1,
                    kind |-> IF modelId = "imagen-3" THEN "aiplatform" ELSE "genai",
                    location |-> IF modelId = "imagen-3" THEN configRegion
                                 ELSE requests[i].region]
     IN /\ constructed' = Append(constructed, client)
        /\ IF modelId = "imagen-3"
             THEN /\ aiplatformClient' = <<client>>
                  /\ UNCHANGED genaiClient
                  /\ requests' = [requests EXCEPT ![i].pc = "client",
                                                  ![i].held = <<client>>]
             ELSE /\ genaiClient' = <<client>>
                  /\ UNCHANGED aiplatformClient
                  /\ requests' = [requests EXCEPT ![i].pc = "client"]
  /\ UNCHANGED <<configRegion, lastUsedRegion>>
  /\ UNCHANGED <<outerVars, executorVars, rotationVars, dryVars, legacyVars,
                 classifyVars, guardVars>>

\* getAiplatformClient found its field set: after the import it returns the
\* client the field holds
ReturnCached(i) ==
  /\ requests[i].pc = "cached"
  /\ requests' = [requests EXCEPT ![i].pc = "client",
                                  ![i].held = aiplatformClient]
  /\ UNCHANGED <<configRegion, lastUsedRegion, genaiClient, aiplatformClient,
                 constructed>>
  /\ UNCHANGED <<outerVars, executorVars, rotationVars, dryVars, legacyVars,
                 classifyVars, guardVars>>

\* the await of get...Client resumes and the backend is called:
\* client.predict on the client returned, or the wrapper's generateContent,
\* which reads this.genaiClient when it is called
Invoke(i) ==
  /\ requests[i].pc = "client"
  /\ requests' = [requests EXCEPT
       ![i].pc = "call",
       ![i].served = IF requests[i].model = "imagen-3" THEN requests[i].held
                     ELSE genaiClient]
  /\ UNCHANGED <<configRegion, lastUsedRegion, genaiClient, aiplatformClient,
                 constructed>>
  /\ UNCHANGED <<outerVars, executorVars, rotationVars, dryVars, legacyVars,
                 classifyVars, guardVars>>

\* metadata.region of processImagenResponse / processGeminiResponse
ReportedRegion(i) ==
  IF lastUsedRegion # <<>> THEN lastUsedRegion[1] ELSE configRegion

\* the backend call resolves with images: the response is built
Respond(i) ==
  /\ requests[i].pc = "call"
  /\ requests' = [requests EXCEPT
       ![i].pc = "done",
       ![i].response = <<[model |-> requests[i].model,
                          region |-> ReportedRegion(i)]>>]
  /\ UNCHANGED <<configRegion, lastUsedRegion, genaiClient, aiplatformClient,
                 constructed>>
  /\ UNCHANGED <<outerVars, executorVars, rotationVars, dryVars, legacyVars,
                 classifyVars, guardVars>>

\* the backend call rejects: executeWithRetry sleeps before the next call
\* of the operation, or throws once its budget is used up
Fail(i) ==
  /\ requests[i].pc = "call"
  /\ requests' = [requests EXCEPT
       ![i].pc = IF requests[i].calls < MaxOperationCalls THEN "sleep"
                 ELSE "failed"]
  /\ UNCHANGED <<configRegion, lastUsedRegion, genaiClient, aiplatformClient,
                 constructed>>
  /\ UNCHANGED <<outerVars, executorVars, rotationVars, dryVars, legacyVars,
                 classifyVars, guardVars>>

\* the sleep of executeWithRetry ends: the operation is called again with
\* the region bound at generate()
Retry(i) ==
  /\ requests[i].pc = "sleep"
  /\ \E at \in {"import", "cached", "client"} :
       requests' = [requests EXCEPT ![i].pc = at,
                                    ![i].calls = requests[i].calls + 1,
                                    ![i].held = <<>>,
                                    ![i].served = <<>>]
  /\ OperationStarts(i, requests[i].model, requests[i].region)
  /\ UNCHANGED <<configRegion, genaiClient, aiplatformClient, constructed>>
  /\ UNCHANGED <<outerVars, executorVars, rotationVars, dryVars, legacyVars,
                 classifyVars, guardVars>>

InitProvider ==
  /\ configRegion \in ConfigRegions
  /\ lastUsedRegion = <<>>
  /\ genaiClient = <<>>
  /\ aiplatformClient = <<>>
  /\ constructed = <<>>
  /\ requests = <<>>
  /\ ExecutorIdle
  /\ NoRotation
  /\ NoDry
  /\ NoOuter
  /\ NoGuard
  /\ NoLegacy
  /\ NoClassify

NextProvider ==
  \/ Generate
  \/ \E i \in 1..Len(requests) : Construct(i)
  \/ \E i \in 1..Len(requests) : ReturnCached(i)
  \/ \E i \in 1..Len(requests) : Invoke(i)
  \/ \E i \in 1..Len(requests) : Respond(i)
  \/ \E i \in 1..Len(requests) : Fail(i)
  \/ \E i \in 1..Len(requests) : Retry(i)

SpecProvider == InitProvider /\ [][NextProvider]_vars

(***************************************************************************)
(* generate(): validation, dry mode and the backend call, for the provider *)
(* that inherits BaseTTIProvider.generate (EdenAI) and for the two that    *)
(* define generate() themselves (Google Cloud, IONOS).                     *)
(***************************************************************************)
\* the largest request.n
MaxImages == 2

\* the number of times executeWithRetry calls the backend operation
MaxBackendCalls == 2

DryProviders == {"edenai", "google-cloud", "ionos"}

\* request.prompt: empty, blank, text (sequences of characters)
DryPrompts == { <<>>, <<" ", " ">>, <<"a", " ", "c", "a", "t">> }

\* request.referenceImages: absent, empty, one image, an image without data
DryReferenceImages ==
  { Undefined,
    << <<>> >>,
    << << [base64 |-> <<"Q", "Q">>] >> >>,
    << << [base64 |-> <<"Q", "Q">>], [base64 |-> <<" ">>] >> >> }

\* the requests generate() is called with
DryRequests(provider) ==
  [ prompt : DryPrompts,
    dry : {Undefined, <<FALSE>>, <<TRUE>>},
    n : {Undefined} \cup { <<k>> : k \in 1..MaxImages },
    model : IF provider = "google-cloud"
              THEN {Undefined, <<"imagen-3">>} ELSE {Undefined},
    referenceImages : DryReferenceImages ]

\* s.trim().length === 0
IsBlank(s) == \A k \in 1..Len(s) : s[k] = " "

\* getDefaultModel of the three providers
getDefaultModel(provider) ==
  IF provider = "edenai" THEN "openai"
  ELSE IF provider = "google-cloud" THEN "gemini-flash-image"
  ELSE "default"

\* modelSupportsCapability(modelId, 'characterConsistency')
supportsCharacterConsistency(provider, modelId) ==
  provider = "google-cloud" /\ modelId = "gemini-flash-image"

\* validateRequest: "ok", or the error it throws
validateRequest(provider, request) ==
  IF IsBlank(request.prompt)
    THEN [name |-> "InvalidConfigError", about |-> "prompt"]
  ELSE IF request.referenceImages # Undefined
          /\ Len(request.referenceImages[1]) > 0
    THEN LET modelId == IF request.model # Undefined THEN request.model[1]
                        ELSE getDefaultModel(provider)
             refs == request.referenceImages[1]
         IN IF ~supportsCharacterConsistency(provider, modelId)
              THEN [name |-> "CapabilityNotSupportedError",
                    about |-> "characterConsistency"]
            ELSE IF \E k \in 1..Len(refs) : IsBlank(refs[k].base64)
              THEN [name |-> "InvalidConfigError", about |-> "referenceImages"]
            ELSE [name |-> "ok", about |-> "ok"]
  ELSE [name |-> "ok", about |-> "ok"]

\* request.n || 1
imageCount(request) == IF request.n # Undefined THEN request.n[1] ELSE 1

\* createDryModeResponse
createDryModeResponse(request) ==
  [kind |-> "return", placeholder |-> TRUE, images |-> imageCount(request)]

\* whether the provider's generate() is BaseTTIProvider.generate, which
\* tests request.dry; GoogleCloudTTIProvider and IonosProvider define
\* generate() themselves, without the test
HonoursDry(provider) == provider = "edenai"

\* generate(request) up to its first suspension: validateRequest, then the
\* dry-mode response (BaseTTIProvider.generate), else executeWithRetry calls
\* the backend operation
DryGenerate ==
  /\ dryPc = "idle"
  /\ LET verdict == validateRequest(dryProvider, dryRequest) IN
       IF verdict.name # "ok"
         THEN /\ dryResponse' = <<[kind |-> "throw", error |-> verdict]>>
              /\ dryPc' = "done"
              /\ UNCHANGED backendCalls
       ELSE IF HonoursDry(dryProvider) /\ dryRequest.dry = <<TRUE>>
         THEN /\ dryResponse' = <<createDryModeResponse(dryRequest)>>
              /\ dryPc' = "done"
              /\ UNCHANGED backendCalls
       ELSE /\ backendCalls' = backendCalls + 1
            /\ dryPc' = "backend"
            /\ UNCHANGED dryResponse
  /\ UNCHANGED <<dryProvider, dryRequest>>
  /\ UNCHANGED <<outerVars, executorVars, rotationVars, providerVars, legacyVars,
                 classifyVars, guardVars>>

\* the backend call resolves with the images of the backend
BackendResponds ==
  /\ dryPc = "backend"
  /\ dryResponse' = <<[kind |-> "return", placeholder |-> FALSE,
                       images |-> imageCount(dryRequest)]>>
  /\ dryPc' = "done"
  /\ UNCHANGED <<dryProvider, dryRequest, backendCalls>>
  /\ UNCHANGED <<outerVars, executorVars, rotationVars, providerVars, legacyVars,
                 classifyVars, guardVars>>

\* the backend call rejects: executeWithRetry calls the operation again, or
\* throws once its budget is used up
BackendFails ==
  /\ dryPc = "backend"
  /\ IF backendCalls < MaxBackendCalls
       THEN /\ backendCalls' = backendCalls + 1
            /\ UNCHANGED <<dryPc, dryResponse>>
       ELSE /\ dryResponse' = <<[kind |-> "throw",
                                 error |-> [name |-> "TTIError",
                                            about |-> "backend"]]>>
            /\ dryPc' = "done"
            /\ UNCHANGED backendCalls
  /\ UNCHANGED <<dryProvider, dryRequest>>
  /\ UNCHANGED <<outerVars, executorVars, rotationVars, providerVars, legacyVars,
                 classifyVars, guardVars>>

InitDry ==
  /\ dryProvider \in DryProviders
  /\ dryRequest \in DryRequests(dryProvider)
  /\ dryPc = "idle"
  /\ backendCalls = 0
  /\ dryResponse = <<>>
  /\ ExecutorIdle
  /\ NoRotation
  /\ NoProvider
  /\ NoOuter
  /\ NoGuard
  /\ NoLegacy
  /\ NoClassify

NextDry == DryGenerate \/ BackendResponds \/ BackendFails

SpecDry == InitDry /\ [][NextDry]_vars

(***************************************************************************)
(* TTIService: the provider registry and generate(request, provider).      *)
(***************************************************************************)
\* the number of registerProvider calls
MaxRegistrations == 3

\* enum TTIProvider
ProviderNames == {"google-cloud", "edenai", "ionos"}

\* whether the Map has the key
MapHas(map, name) == \E k \in 1..Len(map) : map[k].name = name

\* mutant: Map.set always appends an entry
MapSetAppends(map, name, instance) ==
  Append(map, [name |-> name, instance |-> instance])

\* Map.prototype.set: the value of an existing key is replaced where the key
\* stands, a new key is appended
MapSet(map, name, instance) ==
  IF MapHas(map, name)
    THEN [k \in 1..Len(map) |->
            IF map[k].name = name THEN [name |-> name, instance |-> instance]
            ELSE map[k]]
    ELSE Append(map, [name |-> name, instance |-> instance])

\* Map.prototype.get (Undefined when the key is absent)
MapGet(map, name) ==
  IF MapHas(map, name)
    THEN <<map[CHOOSE k \in 1..Len(map) : map[k].name = name].instance>>
    ELSE Undefined

\* registerProvider(provider): this.providers.set(provider.getName(),
\* provider); the provider objects are numbered in the order they are passed
registerProvider ==
  /\ registered < MaxRegistrations
  /\ registered' = registered + 1
  /\ \E name \in ProviderNames :
       providers' = MapSet(providers, name, registered + 1)
  /\ UNCHANGED <<defaultProvider, delegations>>
  /\ UNCHANGED <<runVars, executorVars, rotationVars, entryVars, legacyVars,
                 classifyVars, guardVars>>

\* setDefaultProvider(provider): the default is set whether or not the
\* provider is registered
setDefaultProvider ==
  /\ \E name \in ProviderNames \ {defaultProvider} : defaultProvider' = name
  /\ UNCHANGED <<providers, registered, delegations>>
  /\ UNCHANGED <<runVars, executorVars, rotationVars, entryVars, legacyVars,
                 classifyVars, guardVars>>

\* mutant: an unknown provider is an error although others are registered
ResolveWithoutFallback(named) ==
  LET providerKey == IF named # Undefined THEN named[1] ELSE defaultProvider
      providerInstance == MapGet(providers, providerKey)
  IN IF providerInstance = Undefined
       THEN [kind |-> "throw", name |-> "TTIService", instance |-> 0]
       ELSE [kind |-> "delegate", name |-> providerKey,
             instance |-> providerInstance[1]]

\* the provider lookup of generate(request, provider): the provider object
\* generate() is called on, or the InvalidConfigError of the service
Resolve(named) ==
  LET providerKey == IF named # Undefined THEN named[1] ELSE defaultProvider
      providerInstance == MapGet(providers, providerKey)
  IN IF providerInstance = Undefined
       THEN IF Len(providers) > 0
              THEN [kind |-> "delegate", name |-> providers[1].name,
                    instance |-> providers[1].instance]
              ELSE [kind |-> "throw", name |-> "TTIService", instance |-> 0]
       ELSE [kind |-> "delegate", name |-> providerKey,
             instance |-> providerInstance[1]]

\* generate(request, provider): the lookup, then the result of the provider's
\* generate(request) is the caller's (a response, or the provider's error)
ServiceGenerate ==
  /\ \E named \in {Undefined} \cup { <<n>> : n \in ProviderNames } :
       LET target == Resolve(named) IN
       \E result \in IF target.kind = "throw" THEN {"InvalidConfigError"}
                     ELSE {"response", "InvalidConfigError"} :
         delegations' =
           <<[named |-> named, default |-> defaultProvider, map |-> providers,
              target |-> target, result |-> result]>>
  /\ UNCHANGED <<providers, defaultProvider, registered>>
  /\ UNCHANGED <<runVars, executorVars, rotationVars, entryVars, legacyVars,
                 classifyVars, guardVars>>

\* new TTIService(): no provider, the default from TTI_DEFAULT_PROVIDER or
\* google-cloud
InitService ==
  /\ providers = <<>>
  /\ defaultProvider \in ProviderNames
  /\ registered = 0
  /\ delegations = <<>>
  /\ NoRuns
  /\ ExecutorIdle
  /\ NoRotation
  /\ NoEntry
  /\ NoGuard
  /\ NoLegacy
  /\ NoClassify

NextService == registerProvider \/ setDefaultProvider \/ ServiceGenerate

SpecService == InitService /\ [][NextService]_vars

(***************************************************************************)
(* Several invocations of executeWithRetry side by side on one provider:   *)
(* the locals of each invocation (the counters of the code, the region     *)
(* cursor of the design, section 4.6).                                     *)
(***************************************************************************)
\* the number of invocations side by side
MaxRuns == 2

\* the classes a failed attempt can have
FailureClasses == {"Quota", "Retryable", "Timeout", "NonRetryable"}

\* the resolved policies: budgets, and the rotation (no candidates: none)
RunPolicies ==
  [ maxRetries : 0..1, timeoutRetries : 0..1,
    regions : {<<>>, <<"A", "B">>}, fallback : {FallbackRegion} ]

\* mutant: the counters of the invocation before are carried over
CountersCarriedOver(rs) ==
  IF rs = <<>> THEN [generalRetryCount |-> 0, timeoutRetryCount |-> 0]
  ELSE [generalRetryCount |-> rs[Len(rs)].generalRetryCount,
        timeoutRetryCount |-> rs[Len(rs)].timeoutRetryCount]

\* let generalRetryCount = 0; let timeoutRetryCount = 0
FreshCounters(rs) == [generalRetryCount |-> 0, timeoutRetryCount |-> 0]

\* mutant: an invocation starts where the invocation before stands
StartCursorInherited(rs) == IF rs = <<>> THEN 0 ELSE rs[Len(rs)].cursor

\* the cursor of a new invocation
StartCursor(rs) == 0

\* the region a cursor selects under the shared policy
RunRegionAt(c) ==
  IF runPolicy[1].regions = <<>> THEN ConfiguredRegion
  ELSE IF c < Len(runPolicy[1].regions) THEN runPolicy[1].regions[c + 1]
  ELSE runPolicy[1].fallback

\* executeWithRetry is called: the locals are created
RunCall ==
  /\ Len(runs) < MaxRuns
  /\ runs' = Append(runs,
       [pc |-> "loop", attempt |-> 1,
        generalRetryCount |-> FreshCounters(runs).generalRetryCount,
        timeoutRetryCount |-> FreshCounters(runs).timeoutRetryCount,
        cursor |-> StartCursor(runs), regions |-> <<>>,
        seen |-> [cls \in FailureClasses |-> 0], outcome |-> "none"])
  /\ UNCHANGED <<runPolicy, serviceVars, executorVars, rotationVars,
                 entryVars, legacyVars, classifyVars, guardVars>>

\* the loop test of invocation i passes (with the non-negative budgets of
\* these policies it always does): the operation is called on the region
\* its cursor selects
RunStartAttempt(i) ==
  /\ runs[i].pc = "loop"
  /\ runs[i].attempt <= 1 + runPolicy[1].maxRetries + runPolicy[1].timeoutRetries
  /\ runs' = [runs EXCEPT ![i].pc = "await",
                          ![i].regions = Append(@, RunRegionAt(runs[i].cursor))]
  /\ UNCHANGED <<runPolicy, serviceVars, executorVars, rotationVars,
                 entryVars, legacyVars, classifyVars, guardVars>>

\* the attempt of invocation i succeeds: return result
RunFulfils(i) ==
  /\ runs[i].pc = "await"
  /\ runs' = [runs EXCEPT ![i].pc = "done", ![i].outcome = "return"]
  /\ UNCHANGED <<runPolicy, serviceVars, executorVars, rotationVars,
                 entryVars, legacyVars, classifyVars, guardVars>>

\* mutant: a failure is counted in every invocation that is running
CatchCountsEverywhere(rs, i, cls) ==
  [k \in 1..Len(rs) |->
     IF rs[k].pc = "done" /\ k # i THEN rs[k]
     ELSE IF cls = "Timeout"
       THEN [rs[k] EXCEPT !.timeoutRetryCount = @ + 1]
     ELSE IF cls = "NonRetryable" THEN rs[k]
     ELSE [rs[k] EXCEPT !.generalRetryCount = @ + 1]]

\* the counters after the catch block of invocation i saw a failure of class
\* cls (Quota is a retryable failure to the catch block)
CatchCounts(rs, i, cls) ==
  [rs EXCEPT ![i] =
     IF cls = "Timeout" THEN [@ EXCEPT !.timeoutRetryCount = @ + 1]
     ELSE IF cls = "NonRetryable" THEN @
     ELSE [@ EXCEPT !.generalRetryCount = @ + 1]]

\* whether the catch block of invocation i throws, given the counters after
CatchThrows(rs, i, cls) ==
  \/ cls = "NonRetryable"
  \/ cls = "Timeout" /\ rs[i].timeoutRetryCount > runPolicy[1].timeoutRetries
  \/ cls \in {"Quota", "Retryable"}
       /\ rs[i].generalRetryCount > runPolicy[1].maxRetries

\* mutant: a Quota failure moves the cursor of every invocation
RotateEverywhere(rs, i, cls) ==
  [k \in 1..Len(rs) |->
     IF cls = "Quota" /\ runPolicy[1].regions # <<>>
          /\ rs[k].cursor < Len(runPolicy[1].regions)
       THEN [rs[k] EXCEPT !.cursor = @ + 1]
       ELSE rs[k]]

\* the cursor of invocation i after a retried failure of class cls
Rotate(rs, i, cls) ==
  IF cls = "Quota" /\ runPolicy[1].regions # <<>>
       /\ rs[i].cursor < Len(runPolicy[1].regions)
    THEN [rs EXCEPT ![i].cursor = @ + 1]
    ELSE rs

\* the bonus attempt on the fallback is due for invocation i: rotation is
\* configured, the general budget is exhausted and the region tried last is
\* not the fallback
RunBonusDue(rs, i, cls) ==
  /\ runPolicy[1].regions # <<>>
  /\ cls \in {"Quota", "Retryable"}
  /\ rs[i].generalRetryCount > runPolicy[1].maxRetries
  /\ rs[i].regions[Len(rs[i].regions)] # runPolicy[1].fallback

\* the attempt of invocation i fails with a failure of class cls: the catch
\* block counts it and throws or sleeps; the cursor moves when a Quota
\* failure is retried; the bonus attempt starts when it is due
RunFails(i) ==
  /\ runs[i].pc = "await"
  /\ \E cls \in FailureClasses :
       LET seen == [runs EXCEPT ![i].seen[cls] = @ + 1]
           counted == CatchCounts(seen, i, cls)
       IN IF CatchThrows(counted, i, cls)
            THEN IF RunBonusDue(counted, i, cls)
                   THEN runs' = [counted EXCEPT
                          ![i].pc = "bonus",
                          ![i].regions = Append(@, runPolicy[1].fallback)]
                   ELSE runs' = [counted EXCEPT ![i].pc = "done",
                                                ![i].outcome = "throw"]
            ELSE runs' = [Rotate(counted, i, cls) EXCEPT ![i].pc = "sleep"]
  /\ UNCHANGED <<runPolicy, serviceVars, executorVars, rotationVars,
                 entryVars, legacyVars, classifyVars, guardVars>>

\* the sleep of invocation i ends: attempt++
RunSleepDone(i) ==
  /\ runs[i].pc = "sleep"
  /\ runs' = [runs EXCEPT ![i].pc = "loop", ![i].attempt = @ + 1]
  /\ UNCHANGED <<runPolicy, serviceVars, executorVars, rotationVars,
                 entryVars, legacyVars, classifyVars, guardVars>>

\* the bonus attempt of invocation i settles
RunBonusSettles(i) ==
  /\ runs[i].pc = "bonus"
  /\ \E outcome \in {"return", "throw"} :
       runs' = [runs EXCEPT ![i].pc = "done", ![i].outcome = outcome]
  /\ UNCHANGED <<runPolicy, serviceVars, executorVars, rotationVars,
                 entryVars, legacyVars, classifyVars, guardVars>>

InitRuns ==
  /\ runPolicy \in { <<p>> : p \in RunPolicies }
  /\ runs = <<>>
  /\ NoService
  /\ ExecutorIdle
  /\ NoRotation
  /\ NoEntry
  /\ NoGuard
  /\ NoLegacy
  /\ NoClassify

NextRuns ==
  \/ RunCall
  \/ \E i \in 1..Len(runs) : RunStartAttempt(i)
  \/ \E i \in 1..Len(runs) : RunFulfils(i)
  \/ \E i \in 1..Len(runs) : RunFails(i)
  \/ \E i \in 1..Len(runs) : RunSleepDone(i)
  \/ \E i \in 1..Len(runs) : RunBonusSettles(i)

SpecRuns == InitRuns /\ [][NextRuns]_vars

(***************************************************************************)
(* Claims about the onRetry hook and the RegionRotator.                    *)
(***************************************************************************)
\* the class of a caught error when Quota is told apart from Retryable
ClassWithQuotaTable ==
  [e \in ErrorShapes |->
     IF IsTimeoutTable[e] THEN "Timeout"
     ELSE IF ~IsRetryableTable[e] THEN "NonRetryable"
     ELSE IF IsQuotaTable[e] THEN "Quota"
     ELSE "Retryable"]

ClassifyWithQuota(error) == ClassWithQuotaTable[[error EXCEPT !.at = 0]]

\* the attempts made inside the budgets (all but the bonus attempt)
OrdinaryAttempts == invocations - bonus

\* the first n attempts all failed with a general-budget (Retryable) error
AllFailedRetryably(n) ==
  /\ Len(history) >= n
  /\ \A i \in 1..n : FailedAs(i, "Retryable")

\* the first n attempts all failed with a Quota error
AllFailedWithQuota(n) ==
  /\ Len(history) >= n
  /\ \A i \in 1..n :
       history[i].res = "rejected" /\ ClassifyWithQuota(history[i].err) = "Quota"

\* C21: the hook is invoked exactly once for every retry that is performed,
\* after the failed attempt and before the next one, with the error of that
\* attempt and the numbers 1, 2, ... in order; it is not invoked for a
\* NonRetryable failure, for the failure that exhausts a budget, or after a
\* success.  With maxRetries = 2 and every attempt failing retryably it is
\* invoked exactly twice.
C21_OnRetryPerRetry ==
  IF ~hooked THEN hookCalls = <<>>
  ELSE
    /\ Len(hookCalls) = Len(sleeps)
    /\ Len(hookCalls) = (IF pc \in {"call", "sleep"} THEN attempt ELSE attempt - 1)
    /\ \A k \in 1..Len(hookCalls) :
         /\ hookCalls[k].n = k
         /\ hookCalls[k].calls = k
         /\ history[k].res = "rejected"
         /\ hookCalls[k].err = history[k].err
         /\ Classify(history[k].err) # "NonRetryable"
         /\ OrdinaryAttempts >= k
    /\ (delivered # <<>> /\ maxGeneralRetries = 2 /\ AllFailedRetryably(3)) =>
         Len(hookCalls) = 2

C21_Witness ==
  /\ hooked
  /\ delivered # <<>>
  /\ maxGeneralRetries = 2
  /\ AllFailedRetryably(3)
  /\ OrdinaryAttempts = 3
  /\ Len(hookCalls) = 2
  /\ hookCalls[1].n = 1 /\ hookCalls[1].err = history[1].err
  /\ hookCalls[2].n = 2 /\ hookCalls[2].err = history[2].err

\* attempt i failed with an error of class cls, Quota told apart
FailedWith(i, cls) ==
  history[i].res = "rejected" /\ ClassifyWithQuota(history[i].err) = cls

\* the attempts so far that failed with Quota
QuotaFailures == {i \in 1..Len(history) : FailedWith(i, "Quota")}

\* the number of Quota failures among the first n attempts
NumQuota(n) == Cardinality(QuotaFailures \cap 1..n)

\* the position of a region: its index in the candidate list, the length of
\* the list for the fallback
Position(region) ==
  LET at == {i \in 1..Len(rotation[1].regions) : rotation[1].regions[i] = region}
  IN IF at = {} THEN Len(rotation[1].regions) ELSE (CHOOSE i \in at : TRUE) - 1

\* the region the design selects after q Quota failures
StatedRegion(q) ==
  IF q < Len(rotation[1].regions) THEN rotation[1].regions[q + 1]
  ELSE rotation[1].fallback

StatedBudgetExhausted ==
  /\ OrdinaryAttempts >= 1
  /\ Len(history) >= OrdinaryAttempts
  /\ FailedAs(OrdinaryAttempts, "Retryable")
  /\ NumFailed(OrdinaryAttempts, "Retryable") = retry.maxRetries[1] + 1

\* the flag of the rotation config, true when it is left out
StatedAlwaysTryFallback ==
  rotation[1].alwaysTryFallback \in {Undefined, <<TRUE>>}

\* C24: when the general budget is exhausted, the region tried last is not
\* the fallback F and alwaysTryFallback is true (or left out), exactly one more
\* attempt is made, on F, beyond the 1 + maxRetries (+ timeout retries)
\* attempts of the budgets, and if it succeeds its result is what the caller
\* receives.  With 5 candidates, maxRetries = 3 and every attempt failing
\* with Quota the regions tried are r0, r1, r2, r3 and F.
C24_BonusFallbackAttempt ==
  /\ (Rotating /\ delivered # <<>> /\ StatedBudgetExhausted
        /\ StatedAlwaysTryFallback
        /\ regionLog[OrdinaryAttempts] # rotation[1].fallback) =>
       /\ bonus = 1
       /\ invocations = OrdinaryAttempts + 1
       /\ Len(regionLog) = invocations
       /\ regionLog[invocations] = rotation[1].fallback
       /\ Len(history) = invocations
       /\ history[invocations].res = "fulfilled" =>
            delivered = <<[kind |-> "return", value |-> invocations,
                           err |-> NoError]>>
       /\ history[invocations].res = "rejected" =>
            /\ delivered[1].kind = "throw"
            /\ delivered[1].err \in
                 {history[invocations].err, history[OrdinaryAttempts].err}
  /\ bonus \in {0, 1}
  /\ (Rotating /\ delivered # <<>> /\ retry.maxRetries = <<3>>
        /\ rotation[1].regions = <<"A", "B", "C", "D", "E">>
        /\ StatedAlwaysTryFallback
        /\ AllFailedWithQuota(Len(history))) =>
       regionLog = <<"A", "B", "C", "D", "F">>

C24_Witness ==
  /\ Rotating
  /\ delivered # <<>>
  /\ retry.maxRetries = <<3>>
  /\ rotation[1].regions = <<"A", "B", "C", "D", "E">>
  /\ rotation[1].alwaysTryFallback = Undefined
  /\ AllFailedWithQuota(4)
  /\ Len(history) = 5
  /\ history[5].res = "fulfilled"
  /\ regionLog = <<"A", "B", "C", "D", "F">>
  /\ delivered = <<[kind |-> "return", value |-> 5, err |-> NoError]>>

\* C25: no bonus attempt is made when the last attempt inside the budgets
\* ran on the fallback F: the exhausted budget ends the invocation.  With
\* regions [A,B], maxRetries = 5, alwaysTryFallback = true and every attempt
\* failing with Quota the regions tried are exactly A, B, F, F, F, F.
C25_NoBonusOnceOnFallback ==
  Rotating =>
    /\ (OrdinaryAttempts >= 1 /\ Len(regionLog) >= OrdinaryAttempts
          /\ pc \in {"done", "bonus"}
          /\ regionLog[OrdinaryAttempts] = rotation[1].fallback) =>
         /\ bonus = 0
         /\ invocations = Len(history)
         /\ delivered # <<>> => delivered = outcomes
    /\ (delivered # <<>> /\ rotation[1].regions = <<"A", "B">>
          /\ retry.maxRetries = <<5>>
          /\ rotation[1].alwaysTryFallback = <<TRUE>>
          /\ AllFailedWithQuota(Len(history))) =>
         /\ regionLog = <<"A", "B", "F", "F", "F", "F">>
         /\ invocations = 6

C25_Witness ==
  /\ Rotating
  /\ delivered # <<>>
  /\ rotation[1].regions = <<"A", "B">>
  /\ retry.maxRetries = <<5>>
  /\ rotation[1].alwaysTryFallback = <<TRUE>>
  /\ AllFailedWithQuota(6)
  /\ StatedBudgetExhausted
  /\ bonus = 0
  /\ regionLog = <<"A", "B", "F", "F", "F", "F">>
  /\ delivered = outcomes
  /\ delivered[1].kind = "throw"

\* C26: no bonus attempt is made when alwaysTryFallback is false, nor when
\* the invocation ends otherwise than by exhaustion of the general budget: a
\* NonRetryable failure, exhaustion of the timeout budget, or a success.  With
\* alwaysTryFallback = false, 5 candidates, maxRetries = 3 and every attempt
\* failing with Quota exactly 4 attempts are made and F is never tried.
C26_NoBonusOtherwise ==
  /\ (Rotating /\ rotation[1].alwaysTryFallback = <<FALSE>>) => bonus = 0
  /\ (Rotating /\ pc \in {"done", "bonus"} /\ OrdinaryAttempts >= 1
        /\ Len(history) >= OrdinaryAttempts
        /\ \/ history[OrdinaryAttempts].res = "fulfilled"
           \/ FailedAs(OrdinaryAttempts, "NonRetryable")
           \/ FailedAs(OrdinaryAttempts, "Timeout")) =>
       /\ bonus = 0
       /\ delivered # <<>> => delivered = outcomes
  /\ (Rotating /\ delivered # <<>>
        /\ rotation[1].alwaysTryFallback = <<FALSE>>
        /\ rotation[1].regions = <<"A", "B", "C", "D", "E">>
        /\ retry.maxRetries = <<3>>
        /\ AllFailedWithQuota(Len(history))) =>
       /\ invocations = 4
       /\ regionLog = <<"A", "B", "C", "D">>

C26_Witness ==
  /\ Rotating
  /\ delivered # <<>>
  /\ rotation[1].alwaysTryFallback = <<FALSE>>
  /\ rotation[1].regions = <<"A", "B", "C", "D", "E">>
  /\ retry.maxRetries = <<3>>
  /\ AllFailedWithQuota(4)
  /\ invocations = 4
  /\ regionLog = <<"A", "B", "C", "D">>
  /\ \A k \in 1..Len(regionLog) : regionLog[k] # "F"

\* C27: with no regionRotation a Quota failure is handled like a Retryable
\* one: every rejection that is neither Timeout nor NonRetryable, Quota
\* included, has consumed one unit of the general budget; every attempt runs
\* on the configured region, the cursor does not move and no bonus attempt is
\* made; with every attempt failing with Quota the invocation ends with the
\* error after maxRetries + 1 attempts.
C27_NoRotationQuotaIsRetryable ==
  ~Rotating =>
    /\ \A k \in 1..Len(regionLog) : regionLog[k] = ConfiguredRegion
    /\ cursor = 0
    /\ bonus = 0
    /\ generalRetryCount =
         Cardinality({ i \in 1..Len(history) :
                         /\ history[i].res = "rejected"
                         /\ ClassifyWithQuota(history[i].err) \in {"Quota", "Retryable"} })
    /\ \A i \in 1..Len(history) :
         (history[i].res = "rejected"
            /\ ClassifyWithQuota(history[i].err) = "Quota") =>
           FailedAs(i, "Retryable")
    /\ (delivered # <<>> /\ history # <<>> /\ AllFailedWithQuota(Len(history))) =>
         /\ invocations = retry.maxRetries[1] + 1
         /\ delivered[1].kind = "throw"

C27_Witness ==
  /\ ~Rotating
  /\ retry.maxRetries = <<2>>
  /\ delivered # <<>>
  /\ delivered[1].kind = "throw"
  /\ AllFailedWithQuota(3)
  /\ regionLog = <<ConfiguredRegion, ConfiguredRegion, ConfiguredRegion>>
  /\ generalRetryCount = 3
  /\ bonus = 0

(***************************************************************************)
(* Claims about the Google Cloud provider's regions and clients.           *)
(***************************************************************************)
\* C28: the region a response reports in metadata.region is the region the
\* attempt that produced it ran on, also while other requests run on the
\* same provider instance on other regions.
C28_MetadataRegion ==
  \A i \in 1..Len(requests) :
    requests[i].response # <<>> =>
      requests[i].response[1].region = requests[i].region

\* two requests on one instance run on different regions and both responded
C28_Witness ==
  /\ Len(requests) = 2
  /\ requests[1].region # requests[2].region
  /\ requests[1].response # <<>>
  /\ requests[2].response # <<>>

\* C29: the SDK clients are cached by region and built once per region, also
\* when the first uses are concurrent, and a backend call for region R goes
\* through a client built for R.
C29_ClientPerRegion ==
  /\ \A a, b \in 1..Len(constructed) :
       (constructed[a].kind = constructed[b].kind
          /\ constructed[a].location = constructed[b].location) => a = b
  /\ \A i \in 1..Len(requests) :
       requests[i].served # <<>> =>
         requests[i].served[1].location = requests[i].region

\* two requests for the same model were served while the cache was filled
C29_Witness ==
  /\ Len(requests) = 2
  /\ requests[1].model = requests[2].model
  /\ requests[1].served # <<>>
  /\ requests[2].served # <<>>
  /\ Len(constructed) >= 1

(***************************************************************************)
(* Claims about dry mode.                                                  *)
(***************************************************************************)
\* C30: with request.dry true the backend operation is never invoked; the
\* request is validated first as in normal mode, so an invalid request ends
\* with the error of validateRequest and a valid one with a placeholder
\* response holding n images (one when n is not given).
C30_DryModeSkipsBackend ==
  dryRequest.dry = <<TRUE>> =>
    /\ backendCalls = 0
    /\ dryPc = "done" =>
         IF validateRequest(dryProvider, dryRequest).name = "ok"
           THEN dryResponse = <<[kind |-> "return", placeholder |-> TRUE,
                                 images |-> imageCount(dryRequest)]>>
           ELSE dryResponse =
                  <<[kind |-> "throw",
                     error |-> validateRequest(dryProvider, dryRequest)]>>

\* a valid dry request for two images has been answered
C30_Witness ==
  /\ dryRequest.dry = <<TRUE>>
  /\ dryRequest.n = <<2>>
  /\ validateRequest(dryProvider, dryRequest).name = "ok"
  /\ dryPc = "done"
  /\ dryResponse # <<>>
  /\ dryResponse[1].kind = "return"
  /\ dryResponse[1].images = 2

(***************************************************************************)
(* Claims about the TTIService registry.                                   *)
(***************************************************************************)
\* C31: generate(request, provider) looks up the provider named, the default
\* one when none is named: a registered one is delegated to; when it is not
\* registered and the registry is not empty the first registered provider
\* serves the request; the service throws its InvalidConfigError only when
\* the registry is empty.  The registry never holds two providers of one
\* name: a later registration replaces the earlier one.
C31_ProviderResolution ==
  /\ \A a, b \in 1..Len(providers) :
       providers[a].name = providers[b].name => a = b
  /\ \A name \in ProviderNames :
       MapHas(providers, name) =>
         \A k \in 1..Len(providers) :
           providers[k].name = name => providers[k].instance <= registered
  /\ Len(providers) <= registered
  /\ \A d \in 1..Len(delegations) :
       LET call == delegations[d]
           key == IF call.named # Undefined THEN call.named[1] ELSE call.default
       IN /\ MapHas(call.map, key) =>
               /\ call.target.kind = "delegate"
               /\ call.target.name = key
               /\ <<call.target.instance>> = MapGet(call.map, key)
          /\ (~MapHas(call.map, key) /\ Len(call.map) > 0) =>
               /\ call.target.kind = "delegate"
               /\ call.target.name = call.map[1].name
               /\ call.target.instance = call.map[1].instance
          /\ call.target.kind = "throw" <=> call.map = <<>>
          /\ call.target.kind = "throw" =>
               call.target.name = "TTIService" /\ call.result = "InvalidConfigError"

\* a provider was registered twice, and a request naming an unregistered
\* provider was served by the first registered one
C31_Witness ==
  /\ registered = 3
  /\ Len(providers) = 2
  /\ providers[1].instance = 3
  /\ \E d \in 1..Len(delegations) :
       /\ delegations[d].named # Undefined
       /\ ~MapHas(delegations[d].map, delegations[d].named[1])
       /\ delegations[d].map = providers
       /\ delegations[d].target.instance = 3

(***************************************************************************)
(* Claims about the accounting and the sequencing of the attempts.         *)
(***************************************************************************)
\* C32: under a policy with non-negative budgets, whenever an attempt starts
\* its index is 1 + generalRetryCount + timeoutRetryCount and neither counter
\* exceeds its budget; so the loop test never fails and the throw after the
\* loop is not reached: the invocation ends with the value of a successful
\* attempt, with a NonRetryable error or with the error that exhausted one
\* of the two budgets.
C32_AttemptAccounting ==
  (RetryMode /\ BudgetsNonNegative) =>
    /\ pc \in {"loop", "await"} =>
         /\ attempt = 1 + generalRetryCount + timeoutRetryCount
         /\ generalRetryCount <= maxGeneralRetries
         /\ timeoutRetryCount <= maxTimeoutRetries
         /\ attempt <= absoluteMaxAttempts
    /\ pc = "done" =>
         /\ Len(outcomes) = 1
         /\ history # <<>>
         /\ Len(history) = invocations
         /\ \/ /\ outcomes[1].kind = "return"
               /\ history[Len(history)].res = "fulfilled"
            \/ /\ outcomes[1].kind = "throw"
               /\ history[Len(history)].res = "rejected"
               /\ outcomes[1].err = history[Len(history)].err
               /\ \/ Classify(outcomes[1].err) = "NonRetryable"
                  \/ /\ Classify(outcomes[1].err) = "Timeout"
                     /\ timeoutRetryCount = maxTimeoutRetries + 1
                  \/ /\ Classify(outcomes[1].err) = "Retryable"
                     /\ generalRetryCount = maxGeneralRetries + 1

\* the last attempt the ceiling allows has started, after failures of both
\* kinds
C32_Witness ==
  /\ RetryMode
  /\ BudgetsNonNegative
  /\ pc = "await"
  /\ generalRetryCount >= 1
  /\ timeoutRetryCount >= 1
  /\ attempt = absoluteMaxAttempts
  /\ attempt = 1 + generalRetryCount + timeoutRetryCount

\* C33: the attempts of one request form a strictly sequential stream: the
\* k-th invocation of the operation is made only when the k-1 attempts
\* before it have all been observed to fail (rejection or timeout) and the
\* k-1 sleeps that follow them have been requested and have completed; while
\* an attempt is awaited or a sleep is running no further attempt is
\* started.
C33_SequentialAttempts ==
  RetryMode =>
    /\ \A i \in 1..(Len(history) - 1) : history[i].res = "rejected"
    /\ pc = "loop" =>
         /\ attempt = invocations + 1
         /\ Len(history) = invocations
         /\ Len(sleeps) = invocations
         /\ \A i \in 1..Len(history) : history[i].res = "rejected"
    /\ pc = "await" =>
         /\ attempt = invocations
         /\ Len(history) = invocations - 1
         /\ Len(sleeps) = invocations - 1
         /\ \A i \in 1..Len(history) : history[i].res = "rejected"
    /\ pc = "sleep" =>
         /\ attempt = invocations
         /\ Len(history) = invocations
         /\ Len(sleeps) = invocations
         /\ history[invocations].res = "rejected"
    /\ pc = "done" =>
         /\ Len(history) = invocations
         /\ Len(sleeps) <= invocations

\* the third attempt is awaited after two observed failures and two sleeps
C33_Witness ==
  /\ RetryMode
  /\ pc = "await"
  /\ invocations = 3
  /\ Len(sleeps) = 2
  /\ Len(history) = 2
  /\ history[1].res = "rejected"
  /\ history[2].res = "rejected"

\* C34: rotation adds no attempts of its own: a Quota failure consumes one
\* unit of the general budget as a Retryable failure does, so also with
\* rotation the attempts inside the budgets number at most
\* 1 + maxRetries + timeoutRetries, and all invocations of the operation at
\* most one more, the single bonus attempt on the fallback.
C34_RotationAddsNoAttempts ==
  retryConfig # Undefined =>
    LET ceiling == 1 + retry.maxRetries[1] + retry.timeoutRetries[1]
        counted == IF Len(history) < OrdinaryAttempts THEN Len(history)
                   ELSE OrdinaryAttempts
    IN /\ OrdinaryAttempts <= ceiling
       /\ bonus <= 1
       /\ invocations <= ceiling + 1
       /\ Len(regionLog) = invocations
       /\ generalRetryCount =
            Cardinality({ i \in 1..counted :
                            /\ history[i].res = "rejected"
                            /\ ClassifyWithQuota(history[i].err)
                                 \in {"Quota", "Retryable"} })
       /\ generalRetryCount <= retry.maxRetries[1] + 1

\* both budgets were used up to the ceiling and the bonus attempt was made
C34_Witness ==
  /\ Rotating
  /\ retry.maxRetries = <<3>>
  /\ retry.timeoutRetries = <<1>>
  /\ OrdinaryAttempts = 5
  /\ bonus = 1
  /\ invocations = 6
  /\ \E i \in 1..Len(history) :
       history[i].res = "rejected" /\ ClassifyWithQuota(history[i].err) = "Quota"

(***************************************************************************)
(* Claims about invocations that run side by side.                         *)
(***************************************************************************)
\* C35: the region cursor belongs to one invocation: every invocation makes
\* its first attempt on r0 whatever the cursors of the invocations before
\* it or beside it have reached, its cursor counts its own retried Quota
\* failures only, and as long as it has seen no Quota failure itself all its
\* attempts inside the budgets run on r0.
C35_CursorPerInvocation ==
  \A i \in 1..Len(runs) :
    LET run == runs[i]
        n == Len(runPolicy[1].regions)
        own == run.seen["Quota"]
        inBudget == IF run.pc = "bonus" \/ (run.pc = "done" /\ run.regions # <<>>
                         /\ Len(run.regions) > run.attempt)
                      THEN Len(run.regions) - 1 ELSE Len(run.regions)
    IN /\ run.regions # <<>> => run.regions[1] = RunRegionAt(0)
       /\ run.cursor <= (IF own < n THEN own ELSE n)
       /\ run.pc \in {"loop", "await", "sleep"} =>
            run.cursor = (IF own < n THEN own ELSE n)
       /\ own = 0 => \A k \in 1..inBudget : run.regions[k] = RunRegionAt(0)

\* one invocation has rotated to B while the other, running beside it, made
\* two attempts on A
C35_Witness ==
  /\ Len(runs) = 2
  /\ runPolicy[1].regions = <<"A", "B">>
  /\ runs[1].pc = "await"
  /\ runs[1].regions = <<"A", "B">>
  /\ runs[2].pc = "await"
  /\ runs[2].regions = <<"A", "A">>
  /\ runs[2].seen["Quota"] = 0

\* C36: the retry counters are created per invocation and shared with
\* nobody: a new invocation starts with both counters at 0 whatever earlier
\* invocations counted, within an invocation the counters never decrease,
\* and each changes only by the failures of its own invocation (general:
\* its Quota and Retryable failures, timeout: its Timeout failures).
C36_CountersPerInvocation ==
  [][\A i \in 1..Len(runs') :
       /\ runs'[i].generalRetryCount =
            runs'[i].seen["Quota"] + runs'[i].seen["Retryable"]
       /\ runs'[i].timeoutRetryCount = runs'[i].seen["Timeout"]
       /\ IF i > Len(runs)
            THEN /\ runs'[i].generalRetryCount = 0
                 /\ runs'[i].timeoutRetryCount = 0
            ELSE /\ runs'[i].generalRetryCount >= runs[i].generalRetryCount
                 /\ runs'[i].timeoutRetryCount >= runs[i].timeoutRetryCount
                 /\ runs'[i].seen = runs[i].seen =>
                      /\ runs'[i].generalRetryCount = runs[i].generalRetryCount
                      /\ runs'[i].timeoutRetryCount = runs[i].timeoutRetryCount]_vars

\* a second invocation runs with fresh counters beside, or after, one that
\* has counted failures of both kinds
C36_Witness ==
  /\ Len(runs) = 2
  /\ runs[1].generalRetryCount >= 1
  /\ runs[1].timeoutRetryCount >= 1
  /\ runs[2].pc = "await"
  /\ runs[2].attempt = 2
  /\ runs[2].generalRetryCount = 1
  /\ runs[2].timeoutRetryCount = 0

(***************************************************************************)
(* Claims about the deadline, the Timeout class and the operations in      *)
(* flight.                                                                 *)
(***************************************************************************)
\* C37: with a resolved timeoutMs <= 0 no deadline is applied: no attempt
\* ends with the error of withTimeout, every attempt is settled by the
\* operation itself and its value or error is what the executor sees, no
\* operation is abandoned, and timeoutRetryCount counts only errors the
\* operation threw.
C37_NoDeadline ==
  (RetryMode /\ retryConfig[1].timeoutMs # Undefined
     /\ retryConfig[1].timeoutMs[1] <= 0) =>
    /\ \A i \in 1..Len(history) :
         history[i].res = "rejected" => history[i].err.src = "op"
    /\ lastError.src # "guard"
    /\ timeoutRetryCount =
         Cardinality({ i \in 1..Len(history) :
                         /\ history[i].res = "rejected"
                         /\ history[i].err.src = "op"
                         /\ ErrorIsTimeout(history[i].err) })
    /\ inflight \subseteq {attempt}
    /\ pc = "await" <=> inflight = {attempt}
    /\ \A o \in 1..Len(outcomes) :
         IF outcomes[o].kind = "return"
           THEN /\ history[Len(history)].res = "fulfilled"
                /\ outcomes[o].value = Len(history)
           ELSE outcomes[o].err.src # "guard"

\* with a negative timeoutMs the operation failed, was retried and succeeded
C37_Witness ==
  /\ RetryMode
  /\ retryConfig[1].timeoutMs = <<-5>>
  /\ pc = "done"
  /\ Len(history) = 2
  /\ history[1].res = "rejected"
  /\ history[2].res = "fulfilled"
  /\ outcomes = <<[kind |-> "return", value |-> 2, err |-> NoError]>>

\* C38: only the errors withTimeout makes are classified Timeout: an error
\* the operation threw is classified by the message rules alone and never
\* consumes the timeout budget, whatever its message, so timeoutRetryCount
\* is the number of attempts that ended by the deadline.
C38_OnlyGuardErrorsAreTimeouts ==
  RetryMode =>
    /\ \A i \in 1..Len(history) :
         (history[i].res = "rejected" /\ history[i].err.src = "op") =>
           Classify(history[i].err) # "Timeout"
    /\ timeoutRetryCount =
         Cardinality({ i \in 1..Len(history) :
                         history[i].res = "rejected"
                           /\ history[i].err.src = "guard" })

\* with no deadline armed the operation threw 'Timeout: upstream closed' and
\* the failure was retried on the timeout budget
C38_Witness ==
  /\ RetryMode
  /\ timeoutMs = 0
  /\ Len(history) >= 1
  /\ history[1] = [res |-> "rejected", err |-> OpError("optimeout", 1)]
  /\ timeoutRetryCount = 1
  /\ generalRetryCount = 0
  /\ sleeps = <<TimeoutRetryDelayMs>>

C40_AttemptedAndRealError ==
  pc = "done" =>
    /\ invocations >= 1
    /\ \A o \in 1..Len(outcomes) :
         outcomes[o].kind = "throw" =>
           /\ outcomes[o].err # NoError
           /\ \E i \in 1..Len(history) :
                history[i].res = "rejected" /\ history[i].err = outcomes[o].err

\* with maxRetries = 0 and timeoutRetries = 0 the one attempt failed
\* retryably and its error was thrown
C40_Witness ==
  /\ RetryMode
  /\ retryConfig[1].maxRetries = <<0>>
  /\ retryConfig[1].timeoutRetries = <<0>>
  /\ pc = "done"
  /\ invocations = 1
  /\ Len(history) = 1
  /\ FailedAs(1, "Retryable")
  /\ ThrewOnly(history[1].err)

=============================================================================
